---- MODULE Spec2Model ----
(***************************************************************************)
(* A model of rfparser (TGAC/rfparser): the DOI value type, the resilient  *)
(* fetcher get_url, the DOI-keyed fold of legacy and platform entries, the *)
(* per-DOI enrichment pass of main(), the name matcher is_same_person, the *)
(* roster loader get_users, the author resolution and the ContributorIds   *)
(* of write_xml_output, the serializer itself and the paginated pull       *)
(* RF_get_paginated.                                                       *)
(*                                                                         *)
(* Python strings are modelled as sequences of one-character strings, so   *)
(* that trimming, searching, splitting and lowercasing are computed and    *)
(* not assumed.  Python's None is the value None below for a string, and   *)
(* <<>> for the optional fields of a record (a present x is <<x>>); a dict *)
(* with string keys is a function on the set of its keys.                  *)
(***************************************************************************)
EXTENDS Integers, Sequences, FiniteSets, TLC

VARIABLES
    \* ---- DOI construction (Spec, SpecReparse) ----
    raw,        \* the argument of DOI(...): a string or None
    doi,        \* the outcome of DOI(raw): [ok, value, err]; NotConstructed before the call
    \* ---- DOI equality and hashing (SpecEq) ----
    abc,        \* three constructed DOI values <<a, b, c>>
    cmp,        \* the results of == and hash on them; NotCompared before
    \* ---- get_url (SpecFetch) ----
    call,       \* the frame of one get_url call
    \* ---- is_same_person (SpecPerson) ----
    names,      \* the arguments <<family_names1, given_names1, family_names2, given_names2>>
    same,       \* the outcome of is_same_person(*names); NotCalled before the call
    \* ---- main (SpecFold, SpecEnrich) ----
    root_el,        \* the children of the legacy document's root element
    publications,   \* the entries pulled from the platform
    pubs_with_doi,  \* the DOI-keyed dict, as its items in insertion order
    main,           \* where main() is: its pc, the loop index i, and what the last step did
    \* ---- unique, get_users, author_dict_to_username, write_xml_output, RF_get_paginated ----
    uniq,       \* one call of unique: [pc, l_, result]
    reader,     \* the rows of the people CSV
    users,      \* the roster get_users returns
    matched,    \* one call of author_dict_to_username: [pc, author, result]
    xml_tree,   \* the publication elements under the root of the output document
    paged,      \* the frame of one RF_get_paginated call
    again       \* the outcome of DOI(str(doi)); NotConstructed before the call

doiVars == <<raw, doi, abc, cmp>>
personVars == <<names, same>>
mainVars == <<root_el, publications, pubs_with_doi, main>>
outVars == <<uniq, reader, users, matched, xml_tree, paged, again>>
vars == <<raw, doi, abc, cmp, call, names, same, root_el, publications, pubs_with_doi, main,
          uniq, reader, users, matched, xml_tree, paged, again>>

None == <<"<None>">>

(***************************************************************************)
(* Characters and strings                                                  *)
(***************************************************************************)
Digits == {"0", "1", "2", "3", "4", "5", "6", "7", "8", "9"}
Whitespace == {" ", "\n", "\t", "\r"}
UpperSeq == <<"A", "B", "C", "D", "E", "F", "G", "H", "I", "J", "K", "L", "M",
              "N", "O", "P", "Q", "R", "S", "T", "U", "V", "W", "X", "Y", "Z", "Ä">>
LowerSeq == <<"a", "b", "c", "d", "e", "f", "g", "h", "i", "j", "k", "l", "m",
              "n", "o", "p", "q", "r", "s", "t", "u", "v", "w", "x", "y", "z", "ä">>
NonAscii == {"Ä", "ä"}

Range(f) == {f[i] : i \in DOMAIN f}
IndexOf(seq, c) == CHOOSE i \in 1..Len(seq) : seq[i] = c

\* str.isascii() on one character
IsAscii(c) == c \notin NonAscii

\* str.lower() on one character (Unicode-aware, as Python's is)
CharLower(c) == IF c \in Range(UpperSeq) THEN LowerSeq[IndexOf(UpperSeq, c)] ELSE c

\* str.lower() on a string
StrLower(s) == [i \in 1..Len(s) |-> CharLower(s[i])]

\* the index of the first non-whitespace character of s, Len(s)+1 if none
RECURSIVE FirstNonSpace(_, _)
FirstNonSpace(s, i) ==
    IF i > Len(s) THEN i
    ELSE IF s[i] \in Whitespace THEN FirstNonSpace(s, i + 1) ELSE i

\* the index of the last non-whitespace character of s, 0 if none
RECURSIVE LastNonSpace(_, _)
LastNonSpace(s, i) ==
    IF i < 1 THEN 0
    ELSE IF s[i] \in Whitespace THEN LastNonSpace(s, i - 1) ELSE i

\* no trimming at all
StripNothing(s) == s

\* str.strip()
Strip(s) == SubSeq(s, FirstNonSpace(s, 1), LastNonSpace(s, Len(s)))

\* s.startswith(p) for plain strings
StrStartsWith(s, p) == Len(p) <= Len(s) /\ SubSeq(s, 1, Len(p)) = p

(***************************************************************************)
(* VALID_DOI = re.compile(r"[\d.]+/.+") and VALID_DOI.search                *)
(***************************************************************************)
\* [\d.]
DigitOrDot(c) == c \in Digits \/ c = "."

\* "." of a regex without DOTALL: anything but a line feed
RegexDot(c) == c # "\n"

\* the length of the longest run of [\d.] that starts at position p
RECURSIVE DigitDotRun(_, _)
DigitDotRun(s, p) ==
    IF p > Len(s) \/ ~DigitOrDot(s[p]) THEN 0 ELSE 1 + DigitDotRun(s, p + 1)

\* the length of the longest run of "." (greedy .+) that starts at position p
RECURSIVE DotRun(_, _)
DotRun(s, p) ==
    IF p > Len(s) \/ ~RegexDot(s[p]) THEN 0 ELSE 1 + DotRun(s, p + 1)

NoMatch == [found |-> FALSE, start |-> 0, end |-> 0]

\* the backtracking match of [\d.]+/.+ anchored at position p: the greedy
\* [\d.]+ takes its longest run and gives characters back until "/" and .+ fit
RECURSIVE MatchAtWith(_, _, _)
MatchAtWith(s, p, n) ==
    IF n < 1 THEN NoMatch
    ELSE IF p + n <= Len(s) /\ s[p + n] = "/" /\ DotRun(s, p + n + 1) >= 1
         THEN [found |-> TRUE, start |-> p, end |-> p + n + DotRun(s, p + n + 1)]
         ELSE MatchAtWith(s, p, n - 1)

MatchAt(s, p) == MatchAtWith(s, p, DigitDotRun(s, p))

\* Pattern.search: the match at the leftmost position that has one
RECURSIVE Search(_, _)
Search(s, p) ==
    IF p > Len(s) THEN NoMatch
    ELSE IF MatchAt(s, p).found THEN MatchAt(s, p) ELSE Search(s, p + 1)

(***************************************************************************)
(* class DOI(str)                                                          *)
(***************************************************************************)
Placeholders == {<<>>, <<"A">>, <<"N", "A">>, <<"n", "/", "a">>}

DOIError(e) == [ok |-> FALSE, value |-> <<>>, err |-> e]

\* the call DOI(raw) has not been made
NotConstructed == DOIError("<not constructed>")

\* DOI.__new__
DOINew(d) ==
    LET s == Strip(IF d = None \/ d = <<>> THEN <<>> ELSE d)
        match == Search(s, 1)
    IN  IF s \in Placeholders THEN DOIError("no DOI")
        ELSE IF ~match.found THEN DOIError("malformed DOI")
        ELSE [ok |-> TRUE, value |-> SubSeq(s, match.start, match.end), err |-> ""]

\* str.lower, which DOI would inherit: every character is lowercased
DOILowerInherited(d) == StrLower(d)

\* DOI.lower: only the ASCII characters are lowercased
DOILower(d) == [i \in 1..Len(d) |-> IF IsAscii(d[i]) THEN CharLower(d[i]) ELSE d[i]]

\* str.__eq__ of the lowercase projections (DOI.__eq__ for two DOI operands)
DOIEq(a, b) == DOILower(a) = DOILower(b)

\* the code point of one character
CharCode(c) ==
    IF c \in Digits THEN 48 + (CHOOSE n \in 0..9 : ToString(n) = c)
    ELSE IF c = "Ä" THEN 196
    ELSE IF c = "ä" THEN 228
    ELSE IF c \in Range(UpperSeq) THEN 64 + IndexOf(UpperSeq, c)
    ELSE IF c \in Range(LowerSeq) THEN 96 + IndexOf(LowerSeq, c)
    ELSE IF c = "." THEN 46
    ELSE IF c = "/" THEN 47
    ELSE 32

\* hash(str): a function of the string's characters alone, with collisions
RECURSIVE StrHash(_)
StrHash(s) ==
    IF s = <<>> THEN 0
    ELSE (31 * StrHash(SubSeq(s, 1, Len(s) - 1)) + CharCode(s[Len(s)])) % 256

\* str.__hash__, which DOI would inherit: the hash of the string as written
DOIHashAsWritten(d) == StrHash(d)

\* DOI.__hash__
DOIHash(d) == StrHash(DOILower(d))

(***************************************************************************)
(* get_url                                                                 *)
(***************************************************************************)
REQUEST_TIMEOUT == 5
REQUEST_RETRIES == 3
REQUEST_RETRIES_BACKOFF_FACTOR == 1

\* what one requests.get / Session.get gives: a transport-level exception, or
\* a response with an HTTP status
TransportError == [transport |-> "error", status |-> 0]
HttpResponse(status) == [transport |-> "ok", status |-> status]

NoResponse == [transport |-> "none", status |-> 0]
NoException == [kind |-> "none", msg |-> <<>>]

\* requests.HTTPError, as Response.raise_for_status raises it
HTTPError(status) ==
    [kind |-> "HTTPError",
     msg |-> <<ToString(status), IF status < 500 THEN "Client Error" ELSE "Server Error">>]

FailedTooManyTimes == "Failed too many times to get URL"

\* Exception(f"Failed too many times to get URL {url}")
ExhaustedRetries == [kind |-> "Exception", msg |-> <<FailedTooManyTimes, "<url>">>]

\* Response.raise_for_status raises for the statuses 400..599
RaisesForStatus(status) == 400 <= status /\ status < 600

\* the frame of get_url(url, timeout = timeout, retries = retries) on entry;
\* responses, requests, timeouts, sleeps and events record what the call did
GetUrlEntry(timeout, retries) ==
    [pc |-> "loop", timeout |-> timeout, retries |-> retries, i |-> 0,
     r |-> NoResponse, exc |-> NoException,
     responses |-> <<>>, requests |-> 0, timeouts |-> <<>>, sleeps |-> <<>>,
     events |-> <<>>]

\* a backoff without the special case of the first iteration
BackoffTimeFromStart(i) == REQUEST_RETRIES_BACKOFF_FACTOR * (2 ^ i)

\* backoff_time of iteration i
BackoffTime(i) == IF i = 0 THEN 0 ELSE REQUEST_RETRIES_BACKOFF_FACTOR * (2 ^ i)

\* log.exception(...); sleep(backoff_time), and on to the next iteration
SleepAndContinue(c) ==
    [c EXCEPT !.sleeps = Append(@, BackoffTime(c.i)),
              !.events = Append(@, "sleep"),
              !.i = c.i + 1]

\* an iteration that does not tell client errors from server errors
GetUrlIterationRetryAll(c, resp) ==
    LET sent == [c EXCEPT !.requests = @ + 1,
                          !.timeouts = Append(@, c.timeout + BackoffTime(c.i)),
                          !.responses = Append(@, resp),
                          !.events = Append(@, "get")]
    IN  IF resp.transport = "error" THEN SleepAndContinue(sent)
        ELSE IF ~RaisesForStatus(resp.status)
             THEN [sent EXCEPT !.r = resp, !.pc = "returned"]
        ELSE SleepAndContinue([sent EXCEPT !.r = resp])

\* one iteration of the for loop, in which the network answers resp
GetUrlIteration(c, resp) ==
    LET sent == [c EXCEPT !.requests = @ + 1,
                          !.timeouts = Append(@, c.timeout + BackoffTime(c.i)),
                          !.responses = Append(@, resp),
                          !.events = Append(@, "get")]
    IN  IF resp.transport = "error" THEN SleepAndContinue(sent)
        ELSE IF ~RaisesForStatus(resp.status)
             THEN [sent EXCEPT !.r = resp, !.pc = "returned"]
        ELSE IF 400 <= resp.status /\ resp.status < 500
             THEN [sent EXCEPT !.r = resp, !.pc = "raised", !.exc = HTTPError(resp.status)]
        ELSE SleepAndContinue([sent EXCEPT !.r = resp])

\* a loop without its else clause: falls through to `return r`
GetUrlElseReturn(c) == [c EXCEPT !.pc = "returned"]

\* the else clause of the for loop: range(retries) is used up
GetUrlElse(c) == [c EXCEPT !.pc = "raised", !.exc = ExhaustedRetries]

\* the whole call, the network answering the successive requests with resps
RECURSIVE GetUrlRun(_, _)
GetUrlRun(c, resps) ==
    IF c.pc # "loop" THEN c
    ELSE IF c.i >= c.retries THEN GetUrlElse(c)
    ELSE GetUrlRun(GetUrlIteration(c, Head(resps)), Tail(resps))

GetUrl(timeout, retries, resps) == GetUrlRun(GetUrlEntry(timeout, retries), resps)

(***************************************************************************)
(* util.is_same_person                                                     *)
(***************************************************************************)
\* [\s-]
IsNameSplitter(c) == c \in Whitespace \/ c = "-"

\* NAME_SPLITTER_PATTERN.split(s), scanning from position p with the token
\* cur open: every run of [\s-]+ closes a token, also an empty one at either end
RECURSIVE SplitFrom(_, _, _)
SplitFrom(s, p, cur) ==
    IF p > Len(s) THEN <<cur>>
    ELSE IF IsNameSplitter(s[p])
         THEN IF p > 1 /\ IsNameSplitter(s[p - 1])
              THEN SplitFrom(s, p + 1, cur)
              ELSE <<cur>> \o SplitFrom(s, p + 1, <<>>)
         ELSE SplitFrom(s, p + 1, Append(cur, s[p]))

NameSplit(s) == SplitFrom(s, 1, <<>>)

\* name.rstrip(".")
RECURSIVE RStripDot(_)
RStripDot(t) ==
    IF t # <<>> /\ t[Len(t)] = "." THEN RStripDot(SubSeq(t, 1, Len(t) - 1)) ELSE t

\* [name.rstrip(".").lower() for name in NAME_SPLITTER_PATTERN.split(s)]
NameList(s) == [k \in 1..Len(NameSplit(s)) |-> StrLower(RStripDot(NameSplit(s)[k]))]

Min(m, n) == IF m <= n THEN m ELSE n

Returned(b) == [raised |-> "", value |-> b]
Raised(e) == [raised |-> e, value |-> FALSE]
NotCalled == Raised("<not called>")

\* the loop over zip(given_names1_list, given_names2_list) from pair k on;
\* name[0] of an empty name raises IndexError
RECURSIVE GivenNamesLoop(_, _, _)
GivenNamesLoop(l1, l2, k) ==
    IF k > Min(Len(l1), Len(l2)) THEN Returned(TRUE)
    ELSE LET name1 == l1[k]
             name2 == l2[k]
         IN  IF name1 = name2 THEN GivenNamesLoop(l1, l2, k + 1)
             ELSE IF name1 = <<>> THEN Raised("IndexError")
             ELSE IF <<name1[1]>> = name2 THEN GivenNamesLoop(l1, l2, k + 1)
             ELSE IF name2 = <<>> THEN Raised("IndexError")
             ELSE IF name1 = <<name2[1]>> THEN GivenNamesLoop(l1, l2, k + 1)
             ELSE Returned(FALSE)

\* is_same_person(family_names1, given_names1, family_names2, given_names2)
is_same_person(family_names1, given_names1, family_names2, given_names2) ==
    LET family_names1_list == NameList(family_names1)
        family_names2_list == NameList(family_names2)
    IN  IF family_names1 = <<>> \/ family_names2 = <<>> THEN Raised("AssertionError")
        ELSE IF \E k \in 1..Min(Len(family_names1_list), Len(family_names2_list)) :
                    family_names1_list[k] # family_names2_list[k]
             THEN Returned(FALSE)
        ELSE IF given_names1 = <<>> /\ given_names2 = <<>> THEN Returned(TRUE)
        ELSE IF given_names1 = <<>> \/ given_names2 = <<>> THEN Returned(FALSE)
        ELSE GivenNamesLoop(NameList(given_names1), NameList(given_names2), 1)

(***************************************************************************)
(* dict[DOI, dict]: the items in insertion order; a dict with string keys  *)
(* is a function on the set of its keys                                    *)
(***************************************************************************)
EmptyDict == <<>>

\* d[k] = v
Put(d, k, v) == (k :> v) @@ d

\* d.get(k, default)
Get(d, k, default) == IF k \in DOMAIN d THEN d[k] ELSE default

\* the position of the key that hashes like k and is == k, 0 if there is none
DictFind(items, k) ==
    IF \E n \in 1..Len(items) : DOIHash(items[n].key) = DOIHash(k) /\ DOIEq(items[n].key, k)
    THEN CHOOSE n \in 1..Len(items) : DOIHash(items[n].key) = DOIHash(k) /\ DOIEq(items[n].key, k)
    ELSE 0

\* pubs_with_doi.setdefault(k, {}); pubs_with_doi[k].setdefault(list, []);
\* pubs_with_doi[k][list].append(entry)
AppendEntry(items, k, list, entry) ==
    LET items1 == IF DictFind(items, k) = 0
                  THEN Append(items, [key |-> k, val |-> EmptyDict])
                  ELSE items
        n == DictFind(items1, k)
        val == items1[n].val
    IN  [items1 EXCEPT ![n].val = Put(val, list, Append(Get(val, list, <<>>), entry))]

(***************************************************************************)
(* get_dois_from_old_xml and the fold of the platform entries in main      *)
(***************************************************************************)
\* one pass through the loop body of lines 325-351 or 548-563: the entry is
\* appended to the list of its DOI, or skipped with a warning when DOI(...)
\* raises ValueError
FoldEntry(items, list, entry) ==
    LET made == DOINew(entry.DOI)
    IN  IF made.ok THEN AppendEntry(items, made.value, list, entry) ELSE items

(***************************************************************************)
(* Tables of rfparser/__init__.py.  Titles, types, agencies and publishers  *)
(* are whole strings; DOIs, names, ORCID ids, pages and dates are          *)
(* character sequences.                                                    *)
(***************************************************************************)
KNOWN_BOOK_SERIES ==
    {"Advances in Experimental Medicine and Biology", "Advances in Microbial Physiology",
     "Compendium of Plant Genomes", "Genome Dynamics", "Lecture Notes in Computer Science",
     "Methods in Cell Biology", "Methods in Enzymology", "Methods in Molecular Biology"}

DC_resourceTypeGeneral_TO_CR_TYPE ==
    ("BookChapter" :> "book-chapter") @@ ("ConferencePaper" :> "proceedings-article")
    @@ ("JournalArticle" :> "journal-article") @@ ("Preprint" :> "preprint")

CR_TYPE_TO_XML_CATEGORY_ID ==
    ("book-chapter" :> "2") @@ ("journal-article" :> "1")
    @@ ("preprint" :> "124") @@ ("proceedings-article" :> "2")

\* the keys of BROKEN_DOI_TO_REASON: 10.5281/zenodo.7333887, 10.5281/zenodo.7333888
BROKEN_DOI_TO_REASON ==
    <<[key |-> DOINew(<<"1", "0", ".", "5", "2", "8", "1", "/", "z", "e", "n", "o", "d", "o", ".", "7", "3", "3", "3", "8", "8", "7">>).value,
       val |-> "is actually associated code and data"],
      [key |-> DOINew(<<"1", "0", ".", "5", "2", "8", "1", "/", "z", "e", "n", "o", "d", "o", ".", "7", "3", "3", "3", "8", "8", "8">>).value,
       val |-> "is actually associated code and data"]>>

\* "10.37044/osf.io/"
OsfPrefix == <<"1", "0", ".", "3", "7", "0", "4", "4", "/", "o", "s", "f", ".", "i", "o", "/">>
\* "10.17504/protocols.io."
ProtocolsIoPrefix == <<"1", "0", ".", "1", "7", "5", "0", "4", "/", "p", "r", "o", "t", "o", "c", "o", "l", "s", ".", "i", "o", ".">>
\* "10.17863/cam."
CamPrefix == <<"1", "0", ".", "1", "7", "8", "6", "3", "/", "c", "a", "m", ".">>
\* "https://orcid.org/"
OrcidUrl == <<"h", "t", "t", "p", "s", ":", "/", "/", "o", "r", "c", "i", "d", ".", "o", "r", "g", "/">>

\* DOI.startswith(prefix) for a str prefix
DOIStartsWith(d, prefix) == StrStartsWith(DOILower(d), StrLower(prefix))

\* the optional value of a field: None is <<>>, x is <<x>>
NoneOpt == <<>>
Some(x) == <<x>>

\* exceptions: the class and str(e), the latter as its leading text and the rest
Exc(kind, text) == [kind |-> kind, msg |-> <<text>>]
KeyError(key) == Exc("KeyError", key)
AssertionError(text) == Exc("AssertionError", text)

(***************************************************************************)
(* sanitise_orcid_id, Researcher, Author                                   *)
(***************************************************************************)
\* s.split("/")[-1]
RECURSIVE AfterLastSlash(_)
AfterLastSlash(s) ==
    IF \E n \in 1..Len(s) : s[n] = "/"
    THEN AfterLastSlash(SubSeq(s, (CHOOSE n \in 1..Len(s) : s[n] = "/") + 1, Len(s)))
    ELSE s

\* VALID_ORCID_ID.match(number) for a number of 19 characters
ValidOrcidId(number) ==
    \A n \in 1..19 :
        IF n \in {5, 10, 15} THEN number[n] = "-"
        ELSE IF n = 19 THEN number[n] \in Digits \cup {"X"}
        ELSE number[n] \in Digits

\* sanitise_orcid_id: [ok, value]; not ok is the AssertionError of lines 360-361
sanitise_orcid_id(orcid_id) ==
    IF orcid_id = None \/ orcid_id = <<>> THEN [ok |-> TRUE, value |-> None]
    ELSE LET number == AfterLastSlash(orcid_id)
         IN  IF Len(number) # 19 \/ ~ValidOrcidId(number)
             THEN [ok |-> FALSE, value |-> None]
             ELSE [ok |-> TRUE, value |-> OrcidUrl \o number]

Truthy(x) == x # None /\ x # <<>>

\* Author.from_CR / Author.from_DC once the fields are read: [exc, author];
\* the attribute `name` exists only on an author without family names
NewAuthor(family_names, given_names, name, orcid_id) ==
    LET orcid == sanitise_orcid_id(orcid_id)
    IN  IF ~Truthy(family_names) /\ ~Truthy(name)
        THEN [exc |-> Exc("Exception", "Unrecognised author_dict format"), author |-> EmptyDict]
        ELSE IF ~orcid.ok
        THEN [exc |-> AssertionError("Malformed ORCID id"), author |-> EmptyDict]
        ELSE IF Truthy(family_names)
        THEN [exc |-> NoException,
              author |-> [family_names |-> family_names, given_names |-> given_names,
                          orcid_id |-> orcid.value]]
        ELSE [exc |-> NoException,
              author |-> [family_names |-> None, given_names |-> None, name |-> name,
                          orcid_id |-> orcid.value]]

\* Author.from_CR(author_dict)
from_CR(author_dict) ==
    NewAuthor(Get(author_dict, "family", None),
              IF Truthy(Get(author_dict, "family", None)) THEN Get(author_dict, "given", None) ELSE None,
              Get(author_dict, "name", None),
              Get(author_dict, "ORCID", None))

\* the ORCID of a creator: the nameIdentifier of the last entry with the scheme ORCID
RECURSIVE CreatorOrcid(_, _)
CreatorOrcid(nameIdentifiers, n) ==
    IF n = 0 THEN None
    ELSE IF nameIdentifiers[n].nameIdentifierScheme = "ORCID"
         THEN nameIdentifiers[n].nameIdentifier
         ELSE CreatorOrcid(nameIdentifiers, n - 1)

\* Author.from_DC(creator_dict)
from_DC(creator_dict) ==
    IF "nameIdentifiers" \notin DOMAIN creator_dict
    THEN [exc |-> KeyError("nameIdentifiers"), author |-> EmptyDict]
    ELSE NewAuthor(Get(creator_dict, "familyName", None),
                   IF Truthy(Get(creator_dict, "familyName", None))
                   THEN Get(creator_dict, "givenName", None) ELSE None,
                   Get(creator_dict, "name", None),
                   CreatorOrcid(creator_dict["nameIdentifiers"],
                                Len(creator_dict["nameIdentifiers"])))

\* [from(d) for d in dicts]: the first exception raised, or the authors
AuthorList(dicts, source) ==
    LET made == [n \in 1..Len(dicts) |->
                    IF source = "CR" THEN from_CR(dicts[n]) ELSE from_DC(dicts[n])]
    IN  IF \E n \in 1..Len(made) : made[n].exc # NoException
        THEN [exc |-> made[CHOOSE n \in 1..Len(made) :
                            /\ made[n].exc # NoException
                            /\ \A m \in 1..n - 1 : made[m].exc = NoException].exc,
              authors |-> <<>>]
        ELSE [exc |-> NoException, authors |-> [n \in 1..Len(made) |-> made[n].author]]

\* util.extend_list_to_size(t, size)
extend_list_to_size(t, size) ==
    IF Len(t) >= size THEN t ELSE t \o [n \in 1..size - Len(t) |-> NoneOpt]

(***************************************************************************)
(* Bounded inputs                                                          *)
(***************************************************************************)
StringsUpTo(chars, n) == UNION {[1..k -> chars] : k \in 0..n}

MaxRawLen == 4
ParseChars == {"1", ".", "/", "a", "A", "N", "n", " ", "\n"}
RawInputs == StringsUpTo(ParseChars, MaxRawLen) \cup {None}

\* no comparison has been made
NotCompared == [done |-> FALSE]

(***************************************************************************)
(* Spec: one construction DOI(raw)                                         *)
(***************************************************************************)
DOIIdle == raw = None /\ doi = NotConstructed
EqIdle == abc = <<>> /\ cmp = NotCompared
FetchIdle == call = [pc |-> "idle"]
PersonIdle == names = <<>> /\ same = NotCalled
OutIdle ==
    /\ uniq = [pc |-> "idle"] /\ reader = <<>> /\ users = <<>>
    /\ matched = [pc |-> "idle"] /\ xml_tree = <<>> /\ paged = [pc |-> "idle"] /\ again = NotConstructed
MainIdle ==
    /\ root_el = <<>> /\ publications = <<>> /\ pubs_with_doi = <<>>
    /\ main = [pc |-> "idle"]

Init ==
    /\ raw \in RawInputs
    /\ doi = NotConstructed
    /\ EqIdle /\ FetchIdle /\ PersonIdle /\ MainIdle /\ OutIdle

\* doi = DOI(raw), with the ValueError caught as the callers do
Construct ==
    /\ doi = NotConstructed
    /\ doi' = DOINew(raw)
    /\ UNCHANGED <<outVars, raw, abc, cmp, call, personVars, mainVars>>

Next == Construct

Spec == Init /\ [][Next]_vars

(***************************************************************************)
(* C1                                                                      *)
(***************************************************************************)
\* t is s without its leading and trailing whitespace
IsTrimOf(t, s) ==
    \E i \in 1..Len(s) + 1, j \in 0..Len(s) :
        /\ t = SubSeq(s, i, j)
        /\ \A k \in 1..Len(s) : (k < i \/ k > j) => s[k] \in Whitespace
        /\ t # <<>> => t[1] \notin Whitespace /\ t[Len(t)] \notin Whitespace

\* t[i..k] is: one or more digits/dots, a slash, one or more characters
IsPatternMatch(t, i, k) ==
    \E j \in i + 1..k - 1 :
        /\ \A x \in i..j - 1 : t[x] \in Digits \cup {"."}
        /\ t[j] = "/"
        /\ \A x \in j + 1..k : t[x] # "\n"

HasPatternMatch(t) == \E i \in 1..Len(t), k \in 1..Len(t) : IsPatternMatch(t, i, k)

\* the first match: the leftmost start, and from it as far as the pattern reaches
FirstPatternMatch(t) ==
    LET i0 == CHOOSE i \in 1..Len(t) :
                /\ \E k \in 1..Len(t) : IsPatternMatch(t, i, k)
                /\ \A h \in 1..i - 1 : \A k \in 1..Len(t) : ~IsPatternMatch(t, h, k)
        k0 == CHOOSE k \in 1..Len(t) :
                /\ IsPatternMatch(t, i0, k)
                /\ \A m \in k + 1..Len(t) : ~IsPatternMatch(t, i0, m)
    IN  SubSeq(t, i0, k0)

\* C1: DOI(raw) trims raw and then fails with 'no DOI' on None, "", "A", "NA"
\* and "n/a", fails with 'malformed DOI' when the trimmed string has no match
\* of <digits/dots>/<characters>, and otherwise succeeds with exactly the
\* first match in the trimmed string.
C1_DOIConstruction ==
    doi # NotConstructed =>
        LET s == IF raw = None THEN <<>> ELSE raw
            t == CHOOSE t \in {SubSeq(s, i, j) : i \in 1..Len(s) + 1, j \in 0..Len(s)} :
                    IsTrimOf(t, s)
        IN  /\ t \in {<<>>, <<"A">>, <<"N", "A">>, <<"n", "/", "a">>}
                => doi = [ok |-> FALSE, value |-> <<>>, err |-> "no DOI"]
            /\ t \notin {<<>>, <<"A">>, <<"N", "A">>, <<"n", "/", "a">>} /\ ~HasPatternMatch(t)
                => doi = [ok |-> FALSE, value |-> <<>>, err |-> "malformed DOI"]
            /\ HasPatternMatch(t)
                => doi = [ok |-> TRUE, value |-> FirstPatternMatch(t), err |-> ""]

\* a construction that succeeded on a raw string that starts with whitespace
\* or with a letter, which the value has lost
C1_Witness ==
    /\ doi # NotConstructed /\ raw # None
    /\ doi.ok
    /\ Len(raw) = MaxRawLen
    /\ raw[1] \in Whitespace \cup {"a"}
    /\ Len(doi.value) = Len(raw) - 1

(***************************************************************************)
(* SpecEq: ==, hash on three DOI values                                    *)
(***************************************************************************)
MaxSuffixLen == 2
EqChars == {"a", "A", "Ä", "ä"}
\* raw strings "1/<suffix>" whose suffixes differ in ASCII and non-ASCII case
EqRaws ==
    {<<"1", "/">> \o suffix : suffix \in StringsUpTo(EqChars, MaxSuffixLen) \ {<<>>}}

InitEq ==
    /\ \E ra \in EqRaws, rb \in EqRaws, rc \in EqRaws :
          abc = <<DOINew(ra).value, DOINew(rb).value, DOINew(rc).value>>
    /\ cmp = NotCompared
    /\ DOIIdle /\ FetchIdle /\ PersonIdle /\ MainIdle /\ OutIdle

\* evaluates a == a, a == b, b == a, b == c, a == c and the three hashes
Compare ==
    /\ cmp = NotCompared
    /\ cmp' = [done |-> TRUE,
               aa |-> DOIEq(abc[1], abc[1]),
               ab |-> DOIEq(abc[1], abc[2]),
               ba |-> DOIEq(abc[2], abc[1]),
               bc |-> DOIEq(abc[2], abc[3]),
               ac |-> DOIEq(abc[1], abc[3]),
               ha |-> DOIHash(abc[1]),
               hb |-> DOIHash(abc[2])]
    /\ UNCHANGED <<outVars, raw, doi, abc, call, personVars, mainVars>>

NextEq == Compare

SpecEq == InitEq /\ [][NextEq]_vars

\* x and y are the same character, or ASCII letters that differ only in case
SameUpToAsciiCase(x, y) ==
    \/ x = y
    \/ \E i \in 1..26 : {x, y} = {UpperSeq[i], LowerSeq[i]}

\* C2: DOI equality is reflexive, symmetric and transitive; a == b exactly
\* when a and b have the same length and agree at every position up to the
\* case of ASCII letters; and a == b implies hash(a) == hash(b).
C2_DOIEquality ==
    cmp.done =>
        LET a == abc[1]
            b == abc[2]
        IN  /\ cmp.aa
            /\ cmp.ab = cmp.ba
            /\ cmp.ab /\ cmp.bc => cmp.ac
            /\ cmp.ab <=> /\ Len(a) = Len(b)
                          /\ \A i \in 1..Len(a) : SameUpToAsciiCase(a[i], b[i])
            /\ cmp.ab => cmp.ha = cmp.hb

\* two DOIs compared that differ in ASCII case at one position (equal) and a
\* third that differs from them in the case of a non-ASCII character (not equal)
C2_Witness ==
    /\ cmp.done
    /\ abc[1] # abc[2] /\ cmp.ab
    /\ StrLower(abc[2]) = StrLower(abc[3]) /\ ~cmp.bc

(***************************************************************************)
(* SpecFetch: one call of get_url                                          *)
(***************************************************************************)
MaxRetries == 3
\* HTTP statuses (100..599) around the boundaries the code tests
Statuses == {200, 399, 400, 404, 499, 500, 503, 599}
Responses == {TransportError} \cup {HttpResponse(st) : st \in Statuses}

InitFetch ==
    /\ \E retries \in 0..MaxRetries : call = GetUrlEntry(REQUEST_TIMEOUT, retries)
    /\ DOIIdle /\ EqIdle /\ PersonIdle /\ MainIdle /\ OutIdle

\* lines 230-248: one pass through the loop body
Attempt ==
    /\ call.pc = "loop"
    /\ call.i < call.retries
    /\ \E resp \in Responses : call' = GetUrlIteration(call, resp)
    /\ UNCHANGED <<outVars, doiVars, personVars, mainVars>>

\* lines 249-250: the loop ran out
Exhaust ==
    /\ call.pc = "loop"
    /\ call.i >= call.retries
    /\ call' = GetUrlElse(call)
    /\ UNCHANGED <<outVars, doiVars, personVars, mainVars>>

NextFetch == Attempt \/ Exhaust

SpecFetch == InitFetch /\ [][NextFetch]_vars

IsClientError(resp) == resp.transport = "ok" /\ resp.status \in 400..499
IsRetryable(resp) == resp.transport = "error" \/ resp.status >= 500

\* C3: an attempt answered with a status in [400,500) ends the call at once
\* with that HTTP error: it is the last request of the call, and no sleep
\* follows it.
C3_ClientErrorNotRetried ==
    \A k \in 1..Len(call.responses) :
        IsClientError(call.responses[k]) =>
            /\ k = call.requests
            /\ call.pc = "raised"
            /\ call.exc.kind = "HTTPError"
            /\ call.exc.msg[1] = ToString(call.responses[k].status)
            /\ call.events[Len(call.events)] = "get"
            /\ Len(call.sleeps) = k - 1

\* a 4xx answer to a later attempt, with retries still left
C3_Witness ==
    /\ call.pc = "raised"
    /\ call.requests = 2 /\ call.retries = MaxRetries
    /\ IsClientError(call.responses[2])

\* C4: when k retryable failures are followed by a success, the call returns
\* that response after k+1 requests and k sleeps; the sleep after attempt i
\* lasts 0 for i = 0 and backoffFactor * 2^i for i >= 1, the timeout of
\* attempt i is the base timeout plus that value, and the sleeps strictly grow.
C4_BackoffSchedule ==
    LET delay(i) == IF i = 0 THEN 0 ELSE REQUEST_RETRIES_BACKOFF_FACTOR * 2 ^ i
    IN  /\ \A n \in 1..Len(call.timeouts) : call.timeouts[n] = call.timeout + delay(n - 1)
        /\ \A n \in 1..Len(call.sleeps) : call.sleeps[n] = delay(n - 1)
        /\ \A m, n \in 1..Len(call.sleeps) : m < n => call.sleeps[m] < call.sleeps[n]
        /\ call.pc = "returned" =>
              /\ call.requests = Len(call.responses)
              /\ Len(call.timeouts) = call.requests
              /\ Len(call.sleeps) = call.requests - 1
              /\ call.r = call.responses[call.requests]
              /\ \A n \in 1..call.requests - 1 : IsRetryable(call.responses[n])
              /\ call.r.transport = "ok" /\ call.r.status < 400

\* two 503s and then a 200: returned after two sleeps, the second one longer
C4_Witness ==
    /\ call.pc = "returned"
    /\ call.responses = <<HttpResponse(503), HttpResponse(503), HttpResponse(200)>>
    /\ Len(call.sleeps) = 2 /\ call.sleeps[1] < call.sleeps[2]

\* C5: transport errors and statuses >= 500 are retried; when every attempt
\* ends in one, the call makes exactly `retries` requests and raises the
\* 'Failed too many times' error; no call makes more than `retries` requests
\* or returns a response with an error status.
C5_BoundedRetries ==
    LET allRetryable == \A n \in 1..Len(call.responses) : IsRetryable(call.responses[n])
    IN  /\ call.requests <= call.retries
        /\ call.requests = Len(call.responses)
        /\ allRetryable /\ call.requests < call.retries => call.pc = "loop"
        /\ allRetryable /\ call.pc # "loop" =>
              /\ call.requests = call.retries
              /\ call.pc = "raised"
              /\ call.exc.kind = "Exception"
              /\ call.exc.msg[1] = "Failed too many times to get URL"
        /\ call.pc = "raised" /\ call.exc.kind = "Exception" => allRetryable
        /\ call.pc = "returned" => call.r.transport = "ok" /\ call.r.status \notin 400..599

\* all MaxRetries attempts failed, by a transport error and by a 5xx status
C5_Witness ==
    /\ call.pc = "raised" /\ call.exc = ExhaustedRetries
    /\ call.retries = MaxRetries /\ call.requests = MaxRetries
    /\ call.responses[1] = TransportError
    /\ call.responses[2] = HttpResponse(503)

(***************************************************************************)
(* SpecPerson: one call of is_same_person                                  *)
(***************************************************************************)
MaxGivenLen == 3
GivenChars == {"j", "o", ".", " "}
GivenInputs == StringsUpTo(GivenChars, MaxGivenLen)
\* Doe, doe., D, Doe-Roe, Doe Roe, Roe
FamilyInputs == {<<"D", "o", "e">>, <<"d", "o", "e", ".">>, <<"D">>,
                 <<"D", "o", "e", "-", "R", "o", "e">>, <<"D", "o", "e", " ", "R", "o", "e">>,
                 <<"R", "o", "e">>}

InitPerson ==
    /\ \E f1 \in {<<"D", "o", "e">>, <<"D", "o", "e", "-", "R", "o", "e">>},
          f2 \in FamilyInputs, g1 \in GivenInputs, g2 \in GivenInputs :
          names = <<f1, g1, f2, g2>>
    /\ same = NotCalled
    /\ DOIIdle /\ EqIdle /\ FetchIdle /\ MainIdle /\ OutIdle

\* same = is_same_person(*names)
CallIsSamePerson ==
    /\ same = NotCalled
    /\ same' = is_same_person(names[1], names[2], names[3], names[4])
    /\ UNCHANGED <<outVars, doiVars, call, names, mainVars>>

NextPerson == CallIsSamePerson

SpecPerson == InitPerson /\ [][NextPerson]_vars

\* the tokens of a name string: maximal pieces between runs of whitespace and
\* hyphens (an empty piece where the string starts or ends with such a run),
\* lowercased after their trailing dots are removed
IsTokenListOf(toks, s) ==
    LET isSep(p) == s[p] \in {" ", "\n", "\t", "\r", "-"}
        \* the cut points: position 0, the end of every separator run, Len(s)+1
        starts == {0} \cup {p \in 1..Len(s) : isSep(p) /\ (p = Len(s) \/ ~isSep(p + 1))}
        piece(b) == LET e == CHOOSE e \in b + 1..Len(s) + 1 :
                                 /\ e = Len(s) + 1 \/ isSep(e)
                                 /\ \A q \in b + 1..e - 1 : ~isSep(q)
                    IN  SubSeq(s, b + 1, e - 1)
        undotted(t) == LET n == CHOOSE n \in 0..Len(t) :
                                    /\ \A q \in n + 1..Len(t) : t[q] = "."
                                    /\ n > 0 => t[n] # "."
                       IN  SubSeq(t, 1, n)
        nth(k) == CHOOSE b \in starts : Cardinality({c \in starts : c < b}) = k - 1
    IN  /\ Len(toks) = Cardinality(starts)
        /\ \A k \in 1..Len(toks) : toks[k] = StrLower(undotted(piece(nth(k))))

\* the reference of C10 on token lists
SamePersonReference(f1, g1, f2, g2, fl1, gl1, fl2, gl2) ==
    LET matches(x, y) ==
            \/ x = y
            \/ Len(x) = 1 /\ y # <<>> /\ x[1] = y[1]
            \/ Len(y) = 1 /\ x # <<>> /\ y[1] = x[1]
    IN  IF \E k \in 1..Len(fl1) : k <= Len(fl2) /\ fl1[k] # fl2[k] THEN FALSE
        ELSE IF g1 = <<>> /\ g2 = <<>> THEN TRUE
        ELSE IF g1 = <<>> \/ g2 = <<>> THEN FALSE
        ELSE \A k \in 1..Len(gl1) : k <= Len(gl2) => matches(gl1[k], gl2[k])

\* C10: for non-empty family names is_same_person returns the value of the
\* reference: false on a positional mismatch of the family-name tokens, then
\* true if both given-name strings are empty, false if one is, and otherwise
\* whether every pair of given-name tokens at the same position is equal or
\* has one token that is the single first character of the other.
C10_IsSamePerson ==
    same # NotCalled =>
        \E fl1 \in {NameList(names[1])}, fl2 \in {NameList(names[3])},
           gl1 \in {NameList(names[2])}, gl2 \in {NameList(names[4])} :
            /\ IsTokenListOf(fl1, names[1]) /\ IsTokenListOf(fl2, names[3])
            /\ IsTokenListOf(gl1, names[2]) /\ IsTokenListOf(gl2, names[4])
            /\ same = [raised |-> "",
                       value |-> SamePersonReference(names[1], names[2], names[3], names[4],
                                                     fl1, gl1, fl2, gl2)]

(***************************************************************************)
(* SpecFold: the legacy entries, then the platform entries, are folded     *)
(***************************************************************************)
MaxLegacy == 1
MaxPlatform == 2
\* raw DOI fields: 1/a, 1/A, "doi 1/a" with noise, 1/a-umlaut twice, null, NA
FoldRaws == {<<"1", "/", "a">>, <<"1", "/", "A">>, <<"a", " ", "1", "/", "a">>,
             <<"1", "/", "ä">>, <<"1", "/", "Ä">>, None, <<"N", "A">>}

\* documents of n entries with the ids 1..n
Documents(n) == UNION {[1..k -> FoldRaws] : k \in 0..n}
Entries(document) == [k \in 1..Len(document) |-> [id |-> k, DOI |-> document[k]]]

InitFold ==
    /\ \E legacy \in Documents(MaxLegacy), platform \in Documents(MaxPlatform) :
          /\ root_el = Entries(legacy)
          /\ publications = Entries(platform)
    /\ pubs_with_doi = <<>>
    /\ main = [pc |-> "legacy", i |-> 1]
    /\ DOIIdle /\ EqIdle /\ FetchIdle /\ PersonIdle /\ OutIdle

\* lines 325-351, for the next element of the legacy document
LegacyEntry ==
    /\ main.pc = "legacy" /\ main.i <= Len(root_el)
    /\ pubs_with_doi' = FoldEntry(pubs_with_doi, "nbiros_entries", root_el[main.i])
    /\ main' = [main EXCEPT !.i = @ + 1]
    /\ UNCHANGED <<outVars, doiVars, call, personVars, root_el, publications>>

\* get_dois_from_old_xml returns; lines 529-546 hand over `publications`
LegacyEnd ==
    /\ main.pc = "legacy" /\ main.i > Len(root_el)
    /\ main' = [pc |-> "platform", i |-> 1]
    /\ UNCHANGED <<outVars, doiVars, call, personVars, root_el, publications, pubs_with_doi>>

\* lines 548-563, for the next platform entry
PlatformEntry ==
    /\ main.pc = "platform" /\ main.i <= Len(publications)
    /\ pubs_with_doi' = FoldEntry(pubs_with_doi, "rf_entries", publications[main.i])
    /\ main' = [main EXCEPT !.i = @ + 1]
    /\ UNCHANGED <<outVars, doiVars, call, personVars, root_el, publications>>

\* line 564: the map is built
PlatformEnd ==
    /\ main.pc = "platform" /\ main.i > Len(publications)
    /\ main' = [pc |-> "folded", i |-> 0]
    /\ UNCHANGED <<outVars, doiVars, call, personVars, root_el, publications, pubs_with_doi>>

NextFold == LegacyEntry \/ LegacyEnd \/ PlatformEntry \/ PlatformEnd

SpecFold == InitFold /\ [][NextFold]_vars

\* the canonical DOI of a raw field: its first <digits/dots>/<characters>
\* match after trimming, <<>> when it has none
CanonicalOf(field) ==
    LET t == IF field = None THEN <<>> ELSE Strip(field)
    IN  IF t \notin {<<>>, <<"A">>, <<"N", "A">>, <<"n", "/", "a">>} /\ HasPatternMatch(t)
        THEN FirstPatternMatch(t) ELSE <<>>

\* equal as DOIs: the same up to the case of ASCII letters
SameDOI(a, b) ==
    Len(a) = Len(b) /\ \A n \in 1..Len(a) : SameUpToAsciiCase(a[n], b[n])

\* the entries among the first n of a document whose DOI is the DOI k
RECURSIVE EntriesOf(_, _, _)
EntriesOf(document, n, k) ==
    IF n = 0 THEN <<>>
    ELSE LET c == CanonicalOf(document[n].DOI)
         IN  IF c # <<>> /\ SameDOI(c, k)
             THEN Append(EntriesOf(document, n - 1, k), document[n])
             ELSE EntriesOf(document, n - 1, k)

\* C7: at every point of the fold no two keys are equal as DOIs; under each
\* key the legacy list and the source list hold exactly the entries folded so
\* far whose DOI parses to that key, in arrival order (a list is absent when
\* there is none); every folded entry whose DOI parses has its key; entries
\* whose DOI does not parse are under no key, and the fold goes on to the end.
C7_FoldByDOI ==
    LET legacyDone == IF main.pc = "legacy" THEN main.i - 1 ELSE Len(root_el)
        sourceDone == CASE main.pc = "legacy" -> 0
                        [] main.pc = "platform" -> main.i - 1
                        [] OTHER -> Len(publications)
        keys == [n \in 1..Len(pubs_with_doi) |-> pubs_with_doi[n].key]
        listOf(n, list) == IF list \in DOMAIN pubs_with_doi[n].val
                           THEN pubs_with_doi[n].val[list] ELSE <<>>
    IN  /\ \A m, n \in 1..Len(keys) : m # n => ~SameDOI(keys[m], keys[n])
        /\ \A n \in 1..Len(keys) :
              /\ listOf(n, "nbiros_entries") = EntriesOf(root_el, legacyDone, keys[n])
              /\ listOf(n, "rf_entries") = EntriesOf(publications, sourceDone, keys[n])
              /\ "nbiros_entries" \in DOMAIN pubs_with_doi[n].val
                    => pubs_with_doi[n].val["nbiros_entries"] # <<>>
              /\ "rf_entries" \in DOMAIN pubs_with_doi[n].val
                    => pubs_with_doi[n].val["rf_entries"] # <<>>
        /\ \A n \in 1..legacyDone :
              CanonicalOf(root_el[n].DOI) # <<>> =>
                  \E m \in 1..Len(keys) : SameDOI(keys[m], CanonicalOf(root_el[n].DOI))
        /\ \A n \in 1..sourceDone :
              CanonicalOf(publications[n].DOI) # <<>> =>
                  \E m \in 1..Len(keys) : SameDOI(keys[m], CanonicalOf(publications[n].DOI))
        /\ main.pc \in {"legacy", "platform", "folded"}
        /\ main.pc = "folded" => legacyDone = Len(root_el) /\ sourceDone = Len(publications)

\* one legacy entry and two platform entries whose DOIs are written
\* differently end up under one key: 1 legacy entry, 2 source entries
C7_Witness ==
    /\ main.pc = "folded"
    /\ Len(root_el) = 1 /\ Len(publications) = 2
    /\ publications[1].DOI # publications[2].DOI
    /\ root_el[1].DOI # publications[1].DOI
    /\ Len(pubs_with_doi) = 1
    /\ DOMAIN pubs_with_doi[1].val = {"nbiros_entries", "rf_entries"}
    /\ Len(pubs_with_doi[1].val["nbiros_entries"]) = 1
    /\ Len(pubs_with_doi[1].val["rf_entries"]) = 2


(***************************************************************************)
(* main, lines 571-708: the pass over pubs_with_doi.  One step of the loop *)
(* body gives the publication as it leaves the step, the exception the     *)
(* step raised (NoException if none) and the place the body goes on at.    *)
(***************************************************************************)
Ok(pub, next) == [pub |-> pub, exc |-> NoException, next |-> next]
Fail(pub, e) == [pub |-> pub, exc |-> e, next |-> "except"]
\* `continue`
Continue(pub) == [pub |-> pub, exc |-> NoException, next |-> "head"]

\* what a call of get_url with the defaults can end in
FetchOutcomes ==
    {[pc |-> c.pc, exc |-> c.exc] :
        c \in {GetUrl(REQUEST_TIMEOUT, REQUEST_RETRIES, rs) :
                rs \in [1..REQUEST_RETRIES -> {TransportError} \cup
                            {HttpResponse(st) : st \in {200, 404, 503}}]}}

\* lines 572-575
LoopHead(d, pub) ==
    LET p == Put(pub, "metadata_ok", FALSE)
    IN  IF DictFind(BROKEN_DOI_TO_REASON, d) # 0 THEN Continue(p) ELSE Ok(p, "agency")

\* lines 578-581 with get_doi_RA, and the dispatch of lines 585, 657, 701-702;
\* json is the body r.json(), a list
ResolveAgency(pub, fetch, json) ==
    IF fetch.pc = "raised" THEN Fail(pub, fetch.exc)
    ELSE IF json = <<>> THEN Fail(pub, Exc("IndexError", "list index out of range"))
    ELSE LET doi_RA == json[1]
         IN  IF "RA" \notin DOMAIN doi_RA
             THEN IF "status" \notin DOMAIN doi_RA THEN Fail(pub, KeyError("status"))
                  ELSE Fail(pub, Exc("Exception", doi_RA["status"]))
             ELSE LET p == Put(pub, "RA", doi_RA["RA"])
                  IN  IF doi_RA["RA"] \in {"Crossref", "OP"} THEN Ok(p, "cr_metadata")
                      ELSE IF doi_RA["RA"] = "DataCite" THEN Ok(p, "dc_metadata")
                      ELSE Fail(p, Exc("Exception", "Registration agency is not currently handled"))

\* a title is a sequence of words, blanks, tags and character references
TitleTags == {"<i>", "</i>"}

\* part.split(), from position n with the word cur open
RECURSIVE StrSplit(_, _, _)
StrSplit(part, n, cur) ==
    IF n > Len(part) THEN IF cur = <<>> THEN <<>> ELSE <<cur>>
    ELSE IF part[n] \in Whitespace
         THEN IF cur = <<>> THEN StrSplit(part, n + 1, <<>>)
              ELSE <<cur>> \o StrSplit(part, n + 1, <<>>)
         ELSE StrSplit(part, n + 1, Append(cur, part[n]))

\* itertools.chain.from_iterable(title_part.split() for title_part in parts)
RECURSIVE ChainSplit(_)
ChainSplit(parts) ==
    IF parts = <<>> THEN <<>> ELSE StrSplit(parts[1], 1, <<>>) \o ChainSplit(Tail(parts))

\* " ".join(words)
RECURSIVE JoinWords(_)
JoinWords(words) ==
    IF words = <<>> THEN <<>>
    ELSE IF Len(words) = 1 THEN words[1]
    ELSE words[1] \o <<" ">> \o JoinWords(Tail(words))

\* util.strip_tags: the tags go, a character reference becomes its character
RECURSIVE strip_tags(_)
strip_tags(html) ==
    IF html = <<>> THEN <<>>
    ELSE IF html[1] \in TitleTags THEN strip_tags(Tail(html))
    ELSE IF html[1] = "&amp;" THEN <<"&">> \o strip_tags(Tail(html))
    ELSE <<html[1]>> \o strip_tags(Tail(html))

\* lines 586-592 with CR_get_pub_metadata; r_dict is the body r.json()
CRTitle(pub, fetch, r_dict) ==
    IF fetch.pc = "raised" THEN Fail(pub, fetch.exc)
    ELSE IF "status" \notin DOMAIN r_dict THEN Fail(pub, KeyError("status"))
    ELSE IF r_dict["status"] # "ok" THEN Fail(pub, AssertionError(""))
    ELSE IF "message" \notin DOMAIN r_dict THEN Fail(pub, KeyError("message"))
    ELSE IF "title" \notin DOMAIN r_dict["message"] THEN Fail(pub, KeyError("title"))
    ELSE Ok(Put(pub, "title", strip_tags(JoinWords(ChainSplit(r_dict["message"]["title"])))),
            "cr_type")

\* lines 594-601; the message of the first assertion reads the key pub_subtype
CRType(pub, pub_metadata) ==
    IF "type" \notin DOMAIN pub_metadata THEN Fail(pub, KeyError("type"))
    ELSE IF pub_metadata["type"] = "posted-content" /\ "subtype" \notin DOMAIN pub_metadata
    THEN Fail(pub, KeyError("subtype"))
    ELSE IF pub_metadata["type"] = "posted-content" /\ pub_metadata["subtype"] # "preprint"
    THEN IF "pub_subtype" \notin DOMAIN pub_metadata THEN Fail(pub, KeyError("pub_subtype"))
         ELSE Fail(pub, AssertionError("publication is of type with unknown subtype"))
    ELSE LET pub_type == IF pub_metadata["type"] = "posted-content"
                         THEN pub_metadata["subtype"] ELSE pub_metadata["type"]
         IN  IF pub_type \notin DOMAIN CR_TYPE_TO_XML_CATEGORY_ID
             THEN Fail(pub, AssertionError("unknown publication type"))
             ELSE Ok(Put(pub, "type", pub_type), "cr_container")

\* lines 605-621: the container title of a preprint without container-title
PreprintContainer(d, pub, pub_metadata) ==
    IF Get(pub_metadata, "institution", <<>>) # <<>>
    THEN IF Len(pub_metadata["institution"]) # 1
         THEN Fail(pub, AssertionError("institution with multiple or no elements"))
         ELSE IF "name" \notin DOMAIN pub_metadata["institution"][1]
         THEN Fail(pub, KeyError("name"))
         ELSE Ok(Put(pub, "container-title", pub_metadata["institution"][1]["name"]), "cr_authors")
    ELSE IF "publisher" \notin DOMAIN pub_metadata THEN Fail(pub, KeyError("publisher"))
    ELSE IF "Research Square" \in Range(pub_metadata["publisher"])
    THEN Ok(Put(pub, "container-title", "Research Square"), "cr_authors")
    ELSE IF "PeerJ" \in Range(pub_metadata["publisher"]) \/ DOIStartsWith(d, OsfPrefix)
    THEN IF "group-title" \notin DOMAIN pub_metadata THEN Fail(pub, KeyError("group-title"))
         ELSE Ok(Put(pub, "container-title", pub_metadata["group-title"]), "cr_authors")
    ELSE IF DOIStartsWith(d, ProtocolsIoPrefix)
    THEN Ok(Put(pub, "container-title", "protocols.io"), "cr_authors")
    ELSE Fail(pub, Exc("Exception", "cannot determine preprint journal"))

\* the two titles taken the other way round
BookContainerReversed(pub, container_title_list) ==
    IF pub["type"] # "book-chapter"
    THEN Fail(pub, AssertionError("cannot have container-title with multiple elements"))
    ELSE IF Len(container_title_list) # 2
    THEN Fail(pub, AssertionError("cannot have container-title with more than 2 elements"))
    ELSE IF container_title_list[1] \in KNOWN_BOOK_SERIES
    THEN Ok(Put(Put(pub, "series-title", container_title_list[2]),
                "container-title", container_title_list[1]), "cr_authors")
    ELSE IF container_title_list[2] \in KNOWN_BOOK_SERIES
    THEN Ok(Put(Put(pub, "series-title", container_title_list[1]),
                "container-title", container_title_list[2]), "cr_authors")
    ELSE Fail(pub, Exc("Exception", "container-title with unknown book series"))

\* lines 623-638: a container-title of several elements
BookContainer(pub, container_title_list) ==
    IF pub["type"] # "book-chapter"
    THEN Fail(pub, AssertionError("cannot have container-title with multiple elements"))
    ELSE IF Len(container_title_list) # 2
    THEN Fail(pub, AssertionError("cannot have container-title with more than 2 elements"))
    ELSE IF container_title_list[1] \in KNOWN_BOOK_SERIES
    THEN Ok(Put(Put(pub, "series-title", container_title_list[1]),
                "container-title", container_title_list[2]), "cr_authors")
    ELSE IF container_title_list[2] \in KNOWN_BOOK_SERIES
    THEN Ok(Put(Put(pub, "series-title", container_title_list[2]),
                "container-title", container_title_list[1]), "cr_authors")
    ELSE Fail(pub, Exc("Exception", "container-title with unknown book series"))

\* lines 603-639
CRContainer(d, pub, pub_metadata) ==
    IF "container-title" \notin DOMAIN pub_metadata THEN Fail(pub, KeyError("container-title"))
    ELSE LET container_title_list == pub_metadata["container-title"]
         IN  IF Len(container_title_list) = 0
             THEN IF pub["type"] # "preprint"
                  THEN Fail(pub, AssertionError("cannot have empty container-title"))
                  ELSE PreprintContainer(d, pub, pub_metadata)
             ELSE IF Len(container_title_list) = 1
             THEN Ok(Put(pub, "container-title", container_title_list[1]), "cr_authors")
             ELSE BookContainer(pub, container_title_list)

\* pub_metadata.get(k): None when the key is missing
OptGet(d, k) == IF k \in DOMAIN d THEN Some(d[k]) ELSE NoneOpt

\* the unpacking into year, month, day of extend_list_to_size(parts, 3)
UnpackDate(pub, parts, next) ==
    LET t == extend_list_to_size([n \in 1..Len(parts) |-> Some(parts[n])], 3)
    IN  IF Len(t) # 3 THEN Fail(pub, Exc("ValueError", "too many values to unpack"))
        ELSE Ok(Put(Put(Put(pub, "year", t[1]), "month", t[2]), "day", t[3]), next)

\* the authors taken without the assertion of line 648
CRAuthorsUnchecked(pub, pub_metadata) ==
    LET p == Put(Put(pub, "volume", OptGet(pub_metadata, "volume")),
                 "pages", OptGet(pub_metadata, "page"))
        authors == AuthorList(Get(pub_metadata, "author", <<>>), "CR")
    IN  IF authors.exc # NoException THEN Fail(p, authors.exc)
        ELSE Ok(Put(p, "authors", authors.authors), "cr_issued")

\* lines 641-649
CRAuthors(pub, pub_metadata) ==
    LET p == Put(Put(pub, "volume", OptGet(pub_metadata, "volume")),
                 "pages", OptGet(pub_metadata, "page"))
        authors == AuthorList(Get(pub_metadata, "author", <<>>), "CR")
    IN  IF Get(pub_metadata, "author", <<>>) = <<>>
        THEN Fail(p, AssertionError("missing authors"))
        ELSE IF authors.exc # NoException THEN Fail(p, authors.exc)
        ELSE Ok(Put(p, "authors", authors.authors), "cr_issued")

\* lines 653-654
CRIssued(pub, pub_metadata) ==
    IF "issued" \notin DOMAIN pub_metadata THEN Fail(pub, KeyError("issued"))
    ELSE IF "date-parts" \notin DOMAIN pub_metadata["issued"]
    THEN Fail(pub, KeyError("date-parts"))
    ELSE IF pub_metadata["issued"]["date-parts"] = <<>>
    THEN Fail(pub, Exc("IndexError", "list index out of range"))
    ELSE UnpackDate(pub, pub_metadata["issued"]["date-parts"][1], "cr_oa")

\* metadata_ok is set before the open-access status is looked up
CROpenAccessOkFirst(pub, fetch, r_dict) ==
    LET p == Put(pub, "metadata_ok", TRUE)
    IN  IF fetch.pc = "raised" THEN Fail(p, fetch.exc)
        ELSE IF "oa_status" \notin DOMAIN r_dict THEN Fail(p, KeyError("oa_status"))
        ELSE Ok(Put(p, "oa_status", r_dict["oa_status"]), "head")

\* line 656 with unpaywall_get_oa_status, and line 704
CROpenAccess(pub, fetch, r_dict) ==
    IF fetch.pc = "raised" THEN Fail(pub, fetch.exc)
    ELSE IF "oa_status" \notin DOMAIN r_dict THEN Fail(pub, KeyError("oa_status"))
    ELSE Ok(Put(Put(pub, "oa_status", r_dict["oa_status"]), "metadata_ok", TRUE), "head")

\* lines 658-659 with DC_get_pub_metadata
DCTitle(pub, fetch, r_dict) ==
    IF fetch.pc = "raised" THEN Fail(pub, fetch.exc)
    ELSE IF "data" \notin DOMAIN r_dict THEN Fail(pub, KeyError("data"))
    ELSE IF "attributes" \notin DOMAIN r_dict["data"] THEN Fail(pub, KeyError("attributes"))
    ELSE LET pub_metadata == r_dict["data"]["attributes"]
         IN  IF "titles" \notin DOMAIN pub_metadata THEN Fail(pub, KeyError("titles"))
             ELSE IF pub_metadata["titles"] = <<>>
             THEN Fail(pub, Exc("IndexError", "list index out of range"))
             ELSE IF "title" \notin DOMAIN pub_metadata["titles"][1]
             THEN Fail(pub, KeyError("title"))
             ELSE Ok(Put(pub, "title", pub_metadata["titles"][1]["title"]), "dc_type")

\* lines 661-664
DCType(pub, pub_metadata) ==
    IF "types" \notin DOMAIN pub_metadata THEN Fail(pub, KeyError("types"))
    ELSE IF "resourceTypeGeneral" \notin DOMAIN pub_metadata["types"]
    THEN Fail(pub, KeyError("resourceTypeGeneral"))
    ELSE LET resourceTypeGeneral == pub_metadata["types"]["resourceTypeGeneral"]
         IN  IF resourceTypeGeneral \notin DOMAIN DC_resourceTypeGeneral_TO_CR_TYPE
             THEN Fail(pub, AssertionError("unknown publication type"))
             ELSE Ok(Put(pub, "type", DC_resourceTypeGeneral_TO_CR_TYPE[resourceTypeGeneral]),
                     "dc_container")

\* a normalizer that takes the container of a publication that is not a
\* preprint as its container title
DCContainerHandled(d, pub, pub_metadata) ==
    IF pub["type"] = "preprint"
    THEN IF "publisher" \notin DOMAIN pub_metadata THEN Fail(pub, KeyError("publisher"))
         ELSE IF pub_metadata["publisher"].value = ""
         THEN Fail(pub, AssertionError("cannot have empty publisher"))
         ELSE IF pub_metadata["publisher"].type # "str" THEN Fail(pub, AssertionError(""))
         ELSE Ok(Put(pub, "container-title", pub_metadata["publisher"].value), "dc_authors")
    ELSE IF "container" \notin DOMAIN pub_metadata THEN Fail(pub, KeyError("container"))
    ELSE IF pub_metadata["container"] = EmptyDict /\ DOIStartsWith(d, CamPrefix)
    THEN Continue(pub)
    ELSE IF pub_metadata["container"] = EmptyDict
    THEN Fail(pub, Exc("Exception", "Unhandled situation!"))
    ELSE Ok(Put(pub, "container-title", pub_metadata["container"]["type"]), "dc_authors")

\* lines 666-677; a publisher is [type, value], its Python type and its text
DCContainer(d, pub, pub_metadata) ==
    IF pub["type"] = "preprint"
    THEN IF "publisher" \notin DOMAIN pub_metadata THEN Fail(pub, KeyError("publisher"))
         ELSE IF pub_metadata["publisher"].value = ""
         THEN Fail(pub, AssertionError("cannot have empty publisher"))
         ELSE IF pub_metadata["publisher"].type # "str" THEN Fail(pub, AssertionError(""))
         ELSE Ok(Put(pub, "container-title", pub_metadata["publisher"].value), "dc_authors")
    ELSE IF "container" \notin DOMAIN pub_metadata THEN Fail(pub, KeyError("container"))
    ELSE IF pub_metadata["container"] = EmptyDict /\ DOIStartsWith(d, CamPrefix)
    THEN Continue(pub)
    ELSE Fail(pub, Exc("Exception", "Unhandled situation!"))

\* lines 679-687
DCAuthors(pub, pub_metadata) ==
    LET firstPage == Get(pub_metadata, "firstPage", <<>>)
        lastPage == Get(pub_metadata, "lastPage", <<>>)
        pages == IF firstPage # <<>> /\ lastPage # <<>>
                 THEN Some(firstPage \o <<"-">> \o lastPage)
                 ELSE OptGet(pub_metadata, "firstPage")
        p == Put(Put(pub, "volume", OptGet(pub_metadata, "volume")), "pages", pages)
    IN  IF "creators" \notin DOMAIN pub_metadata THEN Fail(p, KeyError("creators"))
        ELSE IF pub_metadata["creators"] = <<>> THEN Fail(p, AssertionError("missing authors"))
        ELSE LET authors == AuthorList(pub_metadata["creators"], "DC")
             IN  IF authors.exc # NoException THEN Fail(p, authors.exc)
                 ELSE Ok(Put(p, "authors", authors.authors), "dc_issued")

\* the date of the first entry of `dates` from n on with the dateType Issued
RECURSIVE IssuedDate(_, _)
IssuedDate(dates, n) ==
    IF n > Len(dates) THEN None
    ELSE IF dates[n]["dateType"] = "Issued" THEN dates[n]["date"]
    ELSE IssuedDate(dates, n + 1)

\* s.split(c), from position n with the part cur open
RECURSIVE SplitOn(_, _, _, _)
SplitOn(str, c, n, cur) ==
    IF n > Len(str) THEN <<cur>>
    ELSE IF str[n] = c THEN <<cur>> \o SplitOn(str, c, n + 1, <<>>)
    ELSE SplitOn(str, c, n + 1, Append(cur, str[n]))

\* lines 689-704
DCIssued(pub, pub_metadata) ==
    IF "dates" \notin DOMAIN pub_metadata THEN Fail(pub, KeyError("dates"))
    ELSE LET issued_date == IssuedDate(pub_metadata["dates"], 1)
         IN  IF ~Truthy(issued_date) THEN Fail(pub, AssertionError("missing issued date"))
             ELSE LET out == UnpackDate(pub,
                                 SplitOn(SubSeq(issued_date, 1, Min(10, Len(issued_date))),
                                         "-", 1, <<>>), "head")
                  IN  IF out.exc # NoException THEN out
                      ELSE Ok(Put(Put(out.pub, "oa_status", "green"), "metadata_ok", TRUE),
                              "head")

\* lines 705-708: what the handler does with the exception e
ExceptHandlerLogAll(e) == "logged"

ExceptHandler(e) == IF e.msg[1] = FailedTooManyTimes THEN "reraised" ELSE "logged"

(***************************************************************************)
(* SpecEnrich: the pass over a folded map.  The answers of the services    *)
(* are drawn where the loop body reads them.                               *)
(***************************************************************************)
\* raw DOI fields of platform entries: 10.1/a, a known broken DOI in upper
\* case, a BioHackrXiv, a protocols.io and a Cambridge repository DOI
PlainRaw == <<"1", "0", ".", "1", "/", "a">>
BrokenRaw == <<"1", "0", ".", "5", "2", "8", "1", "/", "Z", "E", "N", "O", "D", "O", ".", "7", "3", "3", "3", "8", "8", "7">>
OsfRaw == <<"1", "0", ".", "3", "7", "0", "4", "4", "/", "O", "S", "F", ".", "I", "O", "/", "a">>
ProtocolsIoRaw == <<"1", "0", ".", "1", "7", "5", "0", "4", "/", "p", "r", "o", "t", "o", "c", "o", "l", "s", ".", "i", "o", ".", "a">>
CamRaw == <<"1", "0", ".", "1", "7", "8", "6", "3", "/", "C", "A", "M", ".", "1">>

EnrichFeeds ==
    {<<PlainRaw>>, <<BrokenRaw>>, <<OsfRaw>>, <<ProtocolsIoRaw>>, <<CamRaw>>,
     <<PlainRaw, BrokenRaw>>, <<BrokenRaw, CamRaw>>, <<PlainRaw, PlainRaw, BrokenRaw>>}

\* lines 548-563 over the first n platform entries
RECURSIVE FoldPlatform(_, _)
FoldPlatform(entries, n) ==
    IF n = 0 THEN <<>>
    ELSE FoldEntry(FoldPlatform(entries, n - 1), "rf_entries", entries[n])

\* the bodies of the DOI directory: a list of one dict
RABodies ==
    {<<>>, <<EmptyDict>>, <<[status |-> "DOI does not exist"]>>}
    \cup {<<[RA |-> ra]>> : ra \in {"Crossref", "OP", "DataCite", "mEDRA"}}

\* the bodies of Crossref: the title is "A  <i>b</i>\n", "&amp;c"
CRBodies ==
    {EmptyDict, [status |-> "failed"], [status |-> "ok"], [status |-> "ok", message |-> EmptyDict],
     [status |-> "ok",
      message |-> [title |-> << <<"A", " ", " ", "<i>", "b", "</i>", "\n">>, <<"&amp;", "c">> >>]]}

TypeFields ==
    {EmptyDict, [type |-> "posted-content"]}
    \cup {[type |-> t] : t \in {"journal-article", "book-chapter", "proceedings-article", "dataset"}}
    \cup {[type |-> "posted-content", subtype |-> st] : st \in {"preprint", "other"}}

Book == "A Book"
Series == "Genome Dynamics"

ContainerFields ==
    {EmptyDict}
    \cup {("container-title" :> l) :
            l \in {<<Book>>, <<Book, Series>>, <<Series, Book>>, <<Book, Book>>,
                   <<Book, Series, Book>>}}
    \cup {("container-title" :> <<>>) @@ institution @@ publisher @@ group :
            institution \in {EmptyDict, [institution |-> <<[name |-> "An Institution"]>>],
                             [institution |-> <<[name |-> "An Institution"],
                                                [name |-> "An Institution"]>>]},
            publisher \in {EmptyDict} \cup
                          {[publisher |-> w] : w \in {<<"Research Square", "Platform LLC">>,
                                                      <<"PeerJ", "Inc.">>,
                                                      <<"Cold Spring Harbor Laboratory">>}},
            group \in {EmptyDict, ("group-title" :> "A Group")}}

Doe == <<"D", "o", "e">>
Orcid == <<"0", "0", "0", "0", "-", "0", "0", "0", "2", "-", "1", "8", "2", "5", "-", "0", "0", "9", "7">>

AuthorLists(source) ==
    IF source = "CR"
    THEN {<<>>,
          <<[family |-> Doe, given |-> <<"J">>, ORCID |-> OrcidUrl \o Orcid], [name |-> <<"E", "I">>]>>,
          <<[given |-> <<"J">>]>>,
          <<[family |-> Doe, ORCID |-> <<"0">>]>>}
    ELSE {<<>>,
          <<[familyName |-> Doe, givenName |-> <<"J">>,
             nameIdentifiers |-> <<[nameIdentifierScheme |-> "ORCID", nameIdentifier |-> Orcid]>>],
            [name |-> <<"E", "I">>, nameIdentifiers |-> <<>>]>>,
          <<[name |-> <<"E", "I">>]>>}

AuthorFields ==
    {volume @@ page @@ author :
        volume \in {EmptyDict, [volume |-> <<"7">>]},
        page \in {EmptyDict, [page |-> <<"1", "-", "9">>]},
        author \in {EmptyDict} \cup {[author |-> l] : l \in AuthorLists("CR")}}

IssuedFields ==
    {EmptyDict, [issued |-> EmptyDict], [issued |-> ("date-parts" :> <<>>)]}
    \cup {[issued |-> ("date-parts" :> <<parts>>)] :
            parts \in {<<2020>>, <<2020, 5, 17>>, <<2020, 5, 17, 1>>}}

OABodies == {EmptyDict, [oa_status |-> "gold"], [oa_status |-> "closed"]}

DCBodies ==
    {EmptyDict, [data |-> EmptyDict], [data |-> [attributes |-> EmptyDict]],
     [data |-> [attributes |-> [titles |-> <<>>]]],
     [data |-> [attributes |-> [titles |-> <<[title |-> <<"A", " ", "b">>]>>]]]}

DCTypeFields ==
    {EmptyDict, [types |-> EmptyDict]}
    \cup {[types |-> [resourceTypeGeneral |-> t]] :
            t \in {"Preprint", "JournalArticle", "BookChapter", "ConferencePaper", "Dataset"}}

DCContainerFields ==
    {EmptyDict, [container |-> EmptyDict], [container |-> [type |-> "Journal"]]}
    \cup {[publisher |-> [type |-> t, value |-> v]] :
            t \in {"str", "dict"}, v \in {"", "Zenodo"}}

DCAuthorFields ==
    {volume @@ firstPage @@ lastPage @@ creators :
        volume \in {EmptyDict, [volume |-> <<"7">>]},
        firstPage \in {EmptyDict, [firstPage |-> <<"1">>]},
        lastPage \in {EmptyDict, [lastPage |-> <<"9">>]},
        creators \in {EmptyDict} \cup {[creators |-> l] : l \in AuthorLists("DC")}}

\* the dates 2020, 2020-05-17T10:00 and 1-2-3-4
DCDateFields ==
    {EmptyDict, [dates |-> <<>>], [dates |-> <<[dateType |-> "Created", date |-> <<"2", "0", "2", "0">>]>>]}
    \cup {[dates |-> <<[dateType |-> "Created", date |-> <<"2", "0", "2", "0">>], [dateType |-> "Issued", date |-> dt]>>] :
            dt \in {<<"2", "0", "2", "0">>, <<"2", "0", "2", "0", "-", "0", "5", "-", "1", "7", "T", "1", "0", ":", "0", "0">>, <<"1", "-", "2", "-", "3", "-", "4">>}}

\* the loop is at no step yet
NoStep ==
    [step |-> "none", pub_metadata |-> EmptyDict, raised |-> NoException, handled |-> "none"]

InitEnrich ==
    /\ \E feed \in EnrichFeeds :
          /\ publications = Entries(feed)
          /\ pubs_with_doi = FoldPlatform(Entries(feed), Len(feed))
    /\ root_el = <<>>
    /\ main = [pc |-> "head", i |-> 1] @@ NoStep
    /\ DOIIdle /\ EqIdle /\ FetchIdle /\ PersonIdle /\ OutIdle

\* the step `step` of the loop body for the current DOI ends in `out`, having
\* read pub_metadata: the body goes on, or the handler of lines 705-708 logs
\* the exception and the loop goes on, or it raises the exception again
Took(step, pub_metadata, out) ==
    /\ pubs_with_doi' = [pubs_with_doi EXCEPT ![main.i].val = out.pub]
    /\ main' = [step |-> step, pub_metadata |-> pub_metadata, raised |-> out.exc,
                handled |-> IF out.exc = NoException THEN "none" ELSE ExceptHandler(out.exc),
                pc |-> IF out.exc = NoException THEN out.next
                       ELSE IF ExceptHandler(out.exc) = "reraised" THEN "aborted" ELSE "head",
                i |-> IF out.exc = NoException
                      THEN IF out.next = "head" THEN main.i + 1 ELSE main.i
                      ELSE IF ExceptHandler(out.exc) = "reraised" THEN main.i ELSE main.i + 1]
    /\ UNCHANGED <<outVars, doiVars, call, personVars, root_el, publications>>

EnrichHead ==
    /\ main.pc = "head" /\ main.i <= Len(pubs_with_doi)
    /\ Took("head", EmptyDict, LoopHead(pubs_with_doi[main.i].key, pubs_with_doi[main.i].val))

EnrichAgency ==
    /\ main.pc = "agency"
    /\ \E fetch \in FetchOutcomes, json \in RABodies :
          Took("agency", EmptyDict, ResolveAgency(pubs_with_doi[main.i].val, fetch, json))

EnrichCRTitle ==
    /\ main.pc = "cr_metadata"
    /\ \E fetch \in FetchOutcomes, r_dict \in CRBodies :
          Took("cr_metadata", EmptyDict, CRTitle(pubs_with_doi[main.i].val, fetch, r_dict))

EnrichCRType ==
    /\ main.pc = "cr_type"
    /\ \E pub_metadata \in TypeFields :
          Took("cr_type", pub_metadata, CRType(pubs_with_doi[main.i].val, pub_metadata))

EnrichCRContainer ==
    /\ main.pc = "cr_container"
    /\ \E pub_metadata \in ContainerFields :
          Took("cr_container", pub_metadata,
               CRContainer(pubs_with_doi[main.i].key, pubs_with_doi[main.i].val, pub_metadata))

EnrichCRAuthors ==
    /\ main.pc = "cr_authors"
    /\ \E pub_metadata \in AuthorFields :
          Took("cr_authors", pub_metadata, CRAuthors(pubs_with_doi[main.i].val, pub_metadata))

EnrichCRIssued ==
    /\ main.pc = "cr_issued"
    /\ \E pub_metadata \in IssuedFields :
          Took("cr_issued", pub_metadata, CRIssued(pubs_with_doi[main.i].val, pub_metadata))

EnrichCROpenAccess ==
    /\ main.pc = "cr_oa"
    /\ \E fetch \in FetchOutcomes, r_dict \in OABodies :
          Took("cr_oa", EmptyDict, CROpenAccess(pubs_with_doi[main.i].val, fetch, r_dict))

EnrichDCTitle ==
    /\ main.pc = "dc_metadata"
    /\ \E fetch \in FetchOutcomes, r_dict \in DCBodies :
          Took("dc_metadata", EmptyDict, DCTitle(pubs_with_doi[main.i].val, fetch, r_dict))

EnrichDCType ==
    /\ main.pc = "dc_type"
    /\ \E pub_metadata \in DCTypeFields :
          Took("dc_type", pub_metadata, DCType(pubs_with_doi[main.i].val, pub_metadata))

EnrichDCContainer ==
    /\ main.pc = "dc_container"
    /\ \E pub_metadata \in DCContainerFields :
          Took("dc_container", pub_metadata,
               DCContainer(pubs_with_doi[main.i].key, pubs_with_doi[main.i].val, pub_metadata))

EnrichDCAuthors ==
    /\ main.pc = "dc_authors"
    /\ \E pub_metadata \in DCAuthorFields :
          Took("dc_authors", pub_metadata, DCAuthors(pubs_with_doi[main.i].val, pub_metadata))

EnrichDCIssued ==
    /\ main.pc = "dc_issued"
    /\ \E pub_metadata \in DCDateFields :
          Took("dc_issued", pub_metadata, DCIssued(pubs_with_doi[main.i].val, pub_metadata))

\* the loop is over: line 710
EnrichEnd ==
    /\ main.pc = "head" /\ main.i > Len(pubs_with_doi)
    /\ main' = [pc |-> "enriched", i |-> main.i] @@ NoStep
    /\ UNCHANGED <<outVars, doiVars, call, personVars, root_el, publications, pubs_with_doi>>

NextEnrich ==
    \/ EnrichHead \/ EnrichAgency
    \/ EnrichCRTitle \/ EnrichCRType \/ EnrichCRContainer \/ EnrichCRAuthors
    \/ EnrichCRIssued \/ EnrichCROpenAccess
    \/ EnrichDCTitle \/ EnrichDCType \/ EnrichDCContainer \/ EnrichDCAuthors \/ EnrichDCIssued
    \/ EnrichEnd

SpecEnrich == InitEnrich /\ [][NextEnrich]_vars

\* the record of the DOI the last step worked on
LastPub ==
    pubs_with_doi[IF main.pc = "head" /\ main.step # "none" THEN main.i - 1 ELSE main.i].val

\* C6: when a step of the pass raises the exhausted-retries error of get_url,
\* the handler raises it again and the pass is aborted, with the record of
\* that DOI at metadata_ok = False and no later DOI touched, and the pass is
\* aborted for no other reason; when a step raises anything else (an HTTP
\* client error, a failed assertion, a missing key or index, an unknown
\* agency or a missing RA field), the handler logs it, the record of that DOI
\* keeps metadata_ok = False, and the loop stands at the next DOI of the map,
\* which is still untouched.
C6_ExhaustedRetriesAbort ==
    LET later == {n \in 1..Len(pubs_with_doi) : n > main.i}
    IN  /\ main.raised = ExhaustedRetries =>
              /\ main.handled = "reraised" /\ main.pc = "aborted"
              /\ main.step \in {"agency", "cr_metadata", "cr_oa", "dc_metadata"}
        /\ main.pc = "aborted" =>
              /\ main.raised = ExhaustedRetries
              /\ pubs_with_doi[main.i].val["metadata_ok"] = FALSE
              /\ \A n \in later : "metadata_ok" \notin DOMAIN pubs_with_doi[n].val
        /\ main.raised \notin {NoException, ExhaustedRetries} =>
              /\ main.handled = "logged" /\ main.pc = "head"
              /\ LastPub["metadata_ok"] = FALSE
              /\ \A n \in later \cup {main.i} :
                    n <= Len(pubs_with_doi) => "metadata_ok" \notin DOMAIN pubs_with_doi[n].val

\* the OA-status fetch of the first of two DOIs exhausted its retries
C6_Witness ==
    /\ main.pc = "aborted" /\ main.step = "cr_oa" /\ main.i = 1
    /\ Len(pubs_with_doi) = 2
    /\ main.raised = ExhaustedRetries

\* C8: at every point of the pass a record with metadata_ok = True has a
\* title, a type among journal-article, book-chapter, preprint and
\* proceedings-article, a container title, the volume, pages, year, month and
\* day slots, a non-empty list of authors and an OA status; and any record
\* with a series title has the type book-chapter.
C8_MetadataOkComplete ==
    \A n \in 1..Len(pubs_with_doi) :
        LET pub == pubs_with_doi[n].val
        IN  /\ ("metadata_ok" \in DOMAIN pub /\ pub["metadata_ok"]) =>
                  /\ {"title", "type", "container-title", "volume", "pages", "authors",
                      "year", "month", "day", "oa_status"} \subseteq DOMAIN pub
                  /\ pub["type"] \in {"journal-article", "book-chapter", "preprint",
                                      "proceedings-article"}
                  /\ pub["authors"] # <<>>
            /\ "series-title" \in DOMAIN pub =>
                  "type" \in DOMAIN pub /\ pub["type"] = "book-chapter"

\* a book chapter with a series title has been normalized in full
C8_Witness ==
    \E n \in 1..Len(pubs_with_doi) :
        LET pub == pubs_with_doi[n].val
        IN  /\ "metadata_ok" \in DOMAIN pub /\ pub["metadata_ok"]
            /\ "series-title" \in DOMAIN pub
            /\ pub["volume"] = NoneOpt

\* C9: when the container-title step of the Crossref normalizer has read a
\* list of two or more elements: for a book-chapter and a list of two elements
\* of which exactly one is a known book series, the step raises nothing, the
\* container title is the element that is no series and the series title the
\* one that is, whichever comes first; for a list of two elements of which
\* none is a known series, a list of more than two elements, or another type,
\* the step raises, the exception is logged and the record is left with
\* metadata_ok = False and without container title.
C9_BookSeries ==
    (main.step = "cr_container" /\ "container-title" \in DOMAIN main.pub_metadata
        /\ Len(main.pub_metadata["container-title"]) >= 2) =>
    LET l == main.pub_metadata["container-title"]
        series == {n \in 1..2 : l[n] \in KNOWN_BOOK_SERIES}
    IN  /\ (LastPub["type"] = "book-chapter" /\ Len(l) = 2 /\ Cardinality(series) = 1) =>
              /\ main.raised = NoException
              /\ \A n \in series :
                    /\ LastPub["series-title"] = l[n]
                    /\ LastPub["container-title"] = l[3 - n]
        /\ (LastPub["type"] # "book-chapter" \/ Len(l) > 2 \/ series = {}) =>
              /\ main.raised # NoException /\ main.handled = "logged"
              /\ LastPub["metadata_ok"] = FALSE
              /\ "container-title" \notin DOMAIN LastPub

\* a book chapter whose list names the series first
C9_Witness ==
    /\ main.step = "cr_container" /\ main.raised = NoException
    /\ "container-title" \in DOMAIN main.pub_metadata
    /\ main.pub_metadata["container-title"] = <<Series, Book>>
    /\ LastPub["container-title"] = Book

(***************************************************************************)
(* util.unique and the ContributorIds of write_xml_output, lines 454-465   *)
(***************************************************************************)
\* a list that keeps every element, repeated or not
uniqueKeepAll(l_) == l_

\* list(dict.fromkeys(l_)): a key is inserted when it is met first
unique(l_) ==
    LET fromkeys[n \in 0..Len(l_)] ==
            IF n = 0 THEN <<>>
            ELSE IF l_[n] \in Range(fromkeys[n - 1]) THEN fromkeys[n - 1]
            ELSE Append(fromkeys[n - 1], l_[n])
    IN  fromkeys[Len(l_)]

\* [c.strip() for c in text.split(",")]
StrippedIds(text) ==
    LET parts == SplitOn(text, ",", 1, <<>>)
    IN  [n \in 1..Len(parts) |-> Strip(parts[n])]

\* lines 456-460: contributor_ids_list after the first n legacy entries; an
\* entry without ContributorIds element fails the assertion
RECURSIVE ExtendWithLegacy(_, _, _)
ExtendWithLegacy(contributor_ids_list, nbiros_entries, n) ==
    IF n = 0 THEN [exc |-> NoException, list |-> contributor_ids_list]
    ELSE LET before == ExtendWithLegacy(contributor_ids_list, nbiros_entries, n - 1)
             nbiros_entry == nbiros_entries[n]
         IN  IF before.exc # NoException THEN before
             ELSE IF "ContributorIds" \notin DOMAIN nbiros_entry
             THEN [exc |-> AssertionError(""), list |-> before.list]
             ELSE LET ContributorIds_text ==
                          IF Truthy(nbiros_entry["ContributorIds"])
                          THEN nbiros_entry["ContributorIds"] ELSE <<>>
                  IN  [exc |-> NoException,
                       list |-> before.list \o StrippedIds(ContributorIds_text)]

\* filter(None, l): None and the empty string go
FilterNone(l) == SelectSeq(l, Truthy)

\* sep.join(strs)
RECURSIVE Join(_, _)
Join(sep, strs) ==
    IF strs = <<>> THEN <<>>
    ELSE IF Len(strs) = 1 THEN strs[1]
    ELSE strs[1] \o sep \o Join(sep, Tail(strs))

\* lines 454-465 for the usernames found for the authors (None where none was
\* found) and the legacy entries: the exception raised, the argument and the
\* result of unique, and the text of the element
ContributorIds(usernames, nbiros_entries) ==
    LET extended == ExtendWithLegacy(usernames, nbiros_entries, Len(nbiros_entries))
        l_ == FilterNone(extended.list)
    IN  IF extended.exc # NoException
        THEN [exc |-> extended.exc, l_ |-> <<>>, result |-> <<>>, text |-> <<>>]
        ELSE [exc |-> NoException, l_ |-> l_, result |-> unique(l_),
              text |-> Join(<<",", " ">>, unique(l_))]

(***************************************************************************)
(* SpecUnique: one ContributorIds computation                              *)
(***************************************************************************)
MaxAuthors == 2
MaxIdsLen == 3
IdChars == {"a", "b", ",", " "}
Usernames == {None, <<>>, <<"a">>, <<"b">>}
\* the legacy entries of a record: none, one without ContributorIds element,
\* one with an element without text, or one with a text
LegacyContributors ==
    {<<>>, <<EmptyDict>>, <<[ContributorIds |-> None]>>}
    \cup {<<[ContributorIds |-> text]>> : text \in StringsUpTo(IdChars, MaxIdsLen)}
    \cup {<<[ContributorIds |-> <<"b", ",", "a">>], [ContributorIds |-> text]>> :
            text \in StringsUpTo(IdChars, 1)}

InitUnique ==
    /\ \E usernames \in StringsUpTo(Usernames, MaxAuthors), nbiros_entries \in LegacyContributors :
          uniq = [pc |-> "called", usernames |-> usernames, nbiros_entries |-> nbiros_entries]
    /\ reader = <<>> /\ users = <<>> /\ matched = [pc |-> "idle"]
    /\ xml_tree = <<>> /\ paged = [pc |-> "idle"] /\ again = NotConstructed
    /\ DOIIdle /\ EqIdle /\ FetchIdle /\ PersonIdle /\ MainIdle

CallContributorIds ==
    /\ uniq.pc = "called"
    /\ uniq' = [pc |-> "returned", usernames |-> uniq.usernames,
                nbiros_entries |-> uniq.nbiros_entries]
               @@ ContributorIds(uniq.usernames, uniq.nbiros_entries)
    /\ UNCHANGED <<doiVars, call, personVars, mainVars, reader, users, matched, xml_tree, paged, again>>

NextUnique == CallContributorIds

SpecUnique == InitUnique /\ [][NextUnique]_vars

\* the k-th of the pieces of text between its commas, trimmed
IdPiece(text, k) ==
    LET commas == {n \in 1..Len(text) : text[n] = ","}
        comma(j) == IF j = 0 THEN 0
                    ELSE IF j > Cardinality(commas) THEN Len(text) + 1
                    ELSE CHOOSE n \in commas : Cardinality({m \in commas : m <= n}) = j
        piece == SubSeq(text, comma(k - 1) + 1, comma(k) - 1)
    IN  CHOOSE t \in {SubSeq(piece, i, j) : i \in 1..Len(piece) + 1, j \in 0..Len(piece)} :
            IsTrimOf(t, piece)

\* the usernames, then the ids of the legacy entries in entry order
RECURSIVE AllIds(_, _, _)
AllIds(usernames, nbiros_entries, n) ==
    IF n = 0 THEN usernames
    ELSE LET text == IF nbiros_entries[n]["ContributorIds"] = None THEN <<>>
                     ELSE nbiros_entries[n]["ContributorIds"]
             pieces == Cardinality({m \in 1..Len(text) : text[m] = ","}) + 1
         IN  AllIds(usernames, nbiros_entries, n - 1) \o [k \in 1..pieces |-> IdPiece(text, k)]

\* r holds every element of l other than None and "" once, in the order of
\* the first occurrences in l
IsFirstOccurrences(r, l) ==
    LET first(x) == CHOOSE n \in 1..Len(l) : l[n] = x /\ \A m \in 1..n - 1 : l[m] # x
    IN  /\ Range(r) = Range(l) \ {None, <<>>}
        /\ \A i, j \in 1..Len(r) : i < j => r[i] # r[j] /\ first(r[i]) < first(r[j])

\* C11: unique returns every distinct element of its argument once, in the
\* order of the first occurrences (so nothing for nothing), and applied to its
\* result it changes nothing; and the ContributorIds computed for a record
\* whose legacy entries all have the element are the usernames of the authors
\* in author order followed by the trimmed comma-separated ids of the legacy
\* entries in entry order, without the authors that have none and the empty
\* ids, each once at its first occurrence, joined with ", ".
C11_UniqueContributorIds ==
    (uniq.pc = "returned" /\ uniq.exc = NoException) =>
        /\ IsFirstOccurrences(uniq.result, uniq.l_)
        /\ Range(uniq.l_) = Range(uniq.result)
        /\ unique(uniq.result) = uniq.result
        /\ IsFirstOccurrences(uniq.result,
                              AllIds(uniq.usernames, uniq.nbiros_entries, Len(uniq.nbiros_entries)))
        /\ uniq.text = Join(<<",", " ">>, uniq.result)

\* an author's username comes again, with blanks around it, among the legacy
\* ids, after an empty id
C11_Witness ==
    /\ uniq.pc = "returned" /\ uniq.exc = NoException
    /\ uniq.usernames = <<None, <<"a">> >>
    /\ Len(uniq.nbiros_entries) = 1
    /\ uniq.nbiros_entries[1]["ContributorIds"] = <<",", " ", "a">>
    /\ uniq.result = << <<"a">> >>

(***************************************************************************)
(* get_users, lines 365-387                                                *)
(***************************************************************************)
\* User(username, family_names, given_names, orcid_id): [exc, user]
NewUser(row) ==
    LET orcid == sanitise_orcid_id(row.orcid_id)
    IN  IF ~orcid.ok THEN [exc |-> AssertionError("Malformed ORCID id"), user |-> EmptyDict]
        ELSE IF ~Truthy(row.family_names) THEN [exc |-> AssertionError(""), user |-> EmptyDict]
        ELSE [exc |-> NoException,
              user |-> [username |-> row.username, family_names |-> row.family_names,
                        given_names |-> row.given_names, orcid_id |-> orcid.value]]

\* lines 377-382: the indexes i for which a later user has the same given and
\* family names, in increasing order
DuplicatedUserIndexes(us) ==
    {i \in 1..Len(us) :
        \E j \in i + 1..Len(us) :
            us[i].given_names = us[j].given_names /\ us[i].family_names = us[j].family_names}

\* lines 383-385: del users[index] for every index
DeleteIndexes(us, indexes) ==
    LET kept[n \in 0..Len(us)] ==
            IF n = 0 THEN <<>>
            ELSE IF n \in indexes THEN kept[n - 1] ELSE Append(kept[n - 1], us[n])
    IN  kept[Len(us)]

\* get_users for the rows of the CSV: [exc, users]
get_users(rows) ==
    LET made == [n \in 1..Len(rows) |-> NewUser(rows[n])]
    IN  IF \E n \in 1..Len(rows) : made[n].exc # NoException
        THEN [exc |-> made[CHOOSE n \in 1..Len(rows) :
                            /\ made[n].exc # NoException
                            /\ \A m \in 1..n - 1 : made[m].exc = NoException].exc,
              users |-> <<>>]
        ELSE LET us == [n \in 1..Len(rows) |-> made[n].user]
             IN  [exc |-> NoException, users |-> DeleteIndexes(us, DuplicatedUserIndexes(us))]

(***************************************************************************)
(* SpecUsers: the roster is loaded from the rows of the CSV                *)
(***************************************************************************)
MaxRows == 3
John == <<"J", "o", "h", "n">>
Jane == <<"J", "a", "n", "e">>
\* the n-th row has the username u<n>
RowsOf(n) ==
    [1..n -> [family_names : {Doe}, given_names : {John, Jane},
              orcid_id : {<<>>, Orcid, <<"0">>}]]
Rows(fields) ==
    [n \in 1..Len(fields) |->
        [username |-> <<"u", ToString(n)>>, family_names |-> fields[n].family_names,
         given_names |-> fields[n].given_names, orcid_id |-> fields[n].orcid_id]]

InitUsers ==
    /\ \E n \in 0..MaxRows : \E fields \in RowsOf(n) :
          reader = [pc |-> "open", rows |-> Rows(fields), exc |-> NoException]
    /\ users = <<>>
    /\ uniq = [pc |-> "idle"] /\ matched = [pc |-> "idle"]
    /\ xml_tree = <<>> /\ paged = [pc |-> "idle"] /\ again = NotConstructed
    /\ DOIIdle /\ EqIdle /\ FetchIdle /\ PersonIdle /\ MainIdle

GetUsers ==
    /\ reader.pc = "open"
    /\ LET got == get_users(reader.rows)
       IN  /\ users' = got.users
           /\ reader' = [reader EXCEPT !.pc = IF got.exc = NoException THEN "read" ELSE "raised",
                                       !.exc = got.exc]
    /\ UNCHANGED <<doiVars, call, personVars, mainVars, uniq, matched, xml_tree, paged, again>>

NextUsers == GetUsers

SpecUsers == InitUsers /\ [][NextUsers]_vars

\* C13: once the roster is loaded no two of its entries have the same family
\* and given names, and the entry kept for the names of a row is the first
\* row with these names: the roster is the rows without every row that
\* repeats the names of an earlier one.
C13_RosterKeepsFirst ==
    reader.pc = "read" =>
        /\ \A i, j \in 1..Len(users) :
              i # j => ~(users[i].family_names = users[j].family_names
                         /\ users[i].given_names = users[j].given_names)
        /\ LET rows == reader.rows
               later == {n \in 1..Len(rows) :
                            \E m \in 1..n - 1 :
                                /\ rows[m].family_names = rows[n].family_names
                                /\ rows[m].given_names = rows[n].given_names}
           IN  [n \in 1..Len(users) |-> users[n].username]
                   = [n \in 1..Len(rows) - Cardinality(later) |->
                        rows[CHOOSE k \in 1..Len(rows) \ later :
                                Cardinality({m \in 1..k : m \notin later}) = n].username]

(***************************************************************************)
(* write_xml_output.author_dict_to_username, lines 399-428                 *)
(***************************************************************************)
\* [user.username for user in users if cond(user)] with cond as a set of indexes
UsernamesAt(us, indexes) ==
    LET taken[n \in 0..Len(us)] ==
            IF n = 0 THEN <<>>
            ELSE IF n \in indexes THEN Append(taken[n - 1], us[n].username) ELSE taken[n - 1]
    IN  taken[Len(us)]

\* lines 411-416: is_same_person is called for every user that passes the
\* ORCID test, and what it raises leaves the comprehension
NameMatch(us, author) ==
    LET given_names == IF Truthy(author.given_names) THEN author.given_names ELSE <<>>
        tried == {n \in 1..Len(us) : ~(Truthy(author.orcid_id) /\ Truthy(us[n].orcid_id))}
        isp(n) == is_same_person(us[n].family_names, us[n].given_names,
                                 author.family_names, given_names)
    IN  IF \E n \in tried : isp(n).raised # ""
        THEN [exc |-> Exc(isp(CHOOSE n \in tried :
                                /\ isp(n).raised # ""
                                /\ \A m \in tried : m < n => isp(m).raised = "").raised, ""),
              usernames |-> <<>>]
        ELSE [exc |-> NoException,
              usernames |-> UsernamesAt(us, {n \in tried : isp(n).value})]

\* author_dict_to_username(author) with the roster us: [exc, result]
author_dict_to_username(us, author) ==
    LET by_orcid == UsernamesAt(us, {n \in 1..Len(us) : us[n].orcid_id = author.orcid_id})
    IN  IF Truthy(author.orcid_id) /\ by_orcid # <<>>
        THEN [exc |-> NoException, result |-> by_orcid[1]]
        ELSE IF ~Truthy(author.family_names) THEN [exc |-> NoException, result |-> None]
        ELSE LET by_name == NameMatch(us, author)
             IN  IF by_name.exc # NoException THEN [exc |-> by_name.exc, result |-> None]
                 ELSE IF by_name.usernames # <<>>
                 THEN [exc |-> NoException, result |-> by_name.usernames[1]]
                 ELSE [exc |-> NoException, result |-> None]

(***************************************************************************)
(* SpecMatch: one author is resolved against a loaded roster               *)
(***************************************************************************)
MaxRoster == 2
Orcid2 == <<"0", "0", "0", "0", "-", "0", "0", "0", "2", "-", "1", "6", "9", "4", "-", "2", "3", "3", "X">>
JohnPaul == <<"J", "o", "h", "n", " ", "P", "a", "u", "l">>
RosterRows(n) ==
    [1..n -> [family_names : {Doe}, given_names : {John, JohnPaul, <<>>},
              orcid_id : {<<>>, Orcid, Orcid2}]]

\* the authors Author.from_CR makes: Doe with a given name or none, with or
\* without ORCID id, and a consortium
MatchAuthors ==
    {NewAuthor(Doe, given_names, None, orcid_id).author :
        given_names \in {None, John, <<"J">>, <<"J", ".", " ", "P">>, <<"J", "o", "h", "n", " ">>,
                         Jane},
        orcid_id \in {None, Orcid}}
    \cup {NewAuthor(None, None, <<"E", "I">>, None).author}

InitMatch ==
    /\ \E n \in 0..MaxRoster : \E fields \in RosterRows(n) :
          /\ reader = [pc |-> "read", rows |-> Rows(fields), exc |-> NoException]
          /\ users = get_users(Rows(fields)).users
    /\ \E author \in MatchAuthors : matched = [pc |-> "called", author |-> author]
    /\ uniq = [pc |-> "idle"] /\ xml_tree = <<>> /\ paged = [pc |-> "idle"] /\ again = NotConstructed
    /\ DOIIdle /\ EqIdle /\ FetchIdle /\ PersonIdle /\ MainIdle

CallAuthorDictToUsername ==
    /\ matched.pc = "called"
    /\ LET got == author_dict_to_username(users, matched.author)
       IN  matched' = [pc |-> IF got.exc = NoException THEN "returned" ELSE "raised",
                       author |-> matched.author, exc |-> got.exc, result |-> got.result]
    /\ UNCHANGED <<doiVars, call, personVars, mainVars, uniq, reader, users, xml_tree, paged, again>>

NextMatch == CallAuthorDictToUsername

SpecMatch == InitMatch /\ [][NextMatch]_vars

\* the reference of C10 for a roster person and an author
SamePerson(user, author) ==
    LET given_names == IF Truthy(author.given_names) THEN author.given_names ELSE <<>>
    IN  SamePersonReference(user.family_names, user.given_names, author.family_names, given_names,
                            NameList(user.family_names), NameList(user.given_names),
                            NameList(author.family_names), NameList(given_names))

\* the username of the first roster person among `indexes`, None if there is none
FirstOf(us, indexes) ==
    IF indexes = {} THEN None
    ELSE us[CHOOSE n \in indexes : \A m \in indexes : n <= m].username

\* the username the claim names for an author
ResolvedUsername(us, author) ==
    LET same_orcid == {n \in 1..Len(us) :
                          Truthy(author.orcid_id) /\ us[n].orcid_id = author.orcid_id}
        same_person == {n \in 1..Len(us) :
                           /\ ~(Truthy(author.orcid_id) /\ Truthy(us[n].orcid_id))
                           /\ SamePerson(us[n], author)}
    IN  IF same_orcid # {} THEN FirstOf(us, same_orcid)
        ELSE IF Truthy(author.family_names) THEN FirstOf(us, same_person)
        ELSE None

\* C14: the resolution of an author always returns: the first roster person
\* with the author's ORCID id if there is one, whatever the names; otherwise,
\* for an author with family names, the first roster person who is the same
\* person by name, roster persons with an ORCID id being left out when the
\* author has one; otherwise none.
C14_AuthorResolution ==
    matched.pc # "called" =>
        /\ matched.pc = "returned"
        /\ matched.result = ResolvedUsername(users, matched.author)

(***************************************************************************)
(* One whole pass of the loop body of lines 571-708 for one DOI, given the *)
(* answers b of the services: the steps above, one after the other         *)
(***************************************************************************)
\* the outcome out ends the loop body: an exception, or `continue`
Stopped(out) == out.exc # NoException \/ out.next = "head"

\* the one element of a set of one element
The(S) == CHOOSE x \in S : TRUE

\* lines 586-656, the steps in sequence, each on the record the step before
\* it has left
CRSteps(d, pub, b) ==
    The({IF Stopped(issued) THEN issued ELSE CROpenAccess(issued.pub, b.oa_fetch, b.oa) :
         issued \in
    {IF Stopped(authors) THEN authors ELSE CRIssued(authors.pub, b.issued) :
         authors \in
    {IF Stopped(container) THEN container ELSE CRAuthors(container.pub, b.authors) :
         container \in
    {IF Stopped(type) THEN type ELSE CRContainer(d, type.pub, b.container) :
         type \in
    {IF Stopped(title) THEN title ELSE CRType(title.pub, b.types) :
         title \in {CRTitle(pub, b.fetch, b.r_dict)}}}}}})

\* lines 658-700, the steps in sequence
DCSteps(d, pub, b) ==
    The({IF Stopped(authors) THEN authors ELSE DCIssued(authors.pub, b.issued) :
         authors \in
    {IF Stopped(container) THEN container ELSE DCAuthors(container.pub, b.authors) :
         container \in
    {IF Stopped(type) THEN type ELSE DCContainer(d, type.pub, b.container) :
         type \in
    {IF Stopped(title) THEN title ELSE DCType(title.pub, b.types) :
         title \in {DCTitle(pub, b.fetch, b.r_dict)}}}}})

\* lines 572-704 for the DOI d and its record pub
LoopBody(d, pub, b) ==
    The({IF Stopped(agency) THEN agency
         ELSE IF agency.next = "cr_metadata" THEN CRSteps(d, agency.pub, b)
         ELSE DCSteps(d, agency.pub, b) :
         agency \in
    {IF Stopped(head) THEN head ELSE ResolveAgency(head.pub, b.ra_fetch, b.ra_json) :
         head \in {LoopHead(d, pub)}}})

(***************************************************************************)
(* write_xml_output, lines 390-477.  An element is its tag and its text,   *)
(* the text None being <<>> and a text x being <<x>>.                      *)
(***************************************************************************)
XML_CATEGORY_ID_TO_CATEGORY ==
    ("1" :> "Journal Article") @@ ("2" :> "Book chapter") @@ ("124" :> "PrePrint")

UNPAYWALL_OA_STATUS_TO_XML_OPENACCESS ==
    ("bronze" :> "Bronze Open Access") @@ ("closed" :> "No Open Access")
    @@ ("gold" :> "Gold Open Access") @@ ("green" :> "Green Open Access")
    @@ ("hybrid" :> "Gold Open Access")

\* ElementTree.SubElement(publication_el, tag).text = text
SubElement(tag, text) == [tag |-> tag, text |-> text]

\* str(n) for an int n >= 0
RECURSIVE IntStr(_)
IntStr(n) ==
    LET digit == <<"0", "1", "2", "3", "4", "5", "6", "7", "8", "9">>[(n % 10) + 1]
    IN  IF n < 10 THEN <<digit>> ELSE IntStr(n \div 10) \o <<digit>>

\* util.str_if_not_None(s) for a date slot of a record: an int when the
\* record comes from Crossref, a str when it comes from DataCite
str_if_not_None(s, RA) ==
    IF s = NoneOpt THEN NoneOpt
    ELSE IF RA = "DataCite" THEN s
    ELSE Some(IntStr(s[1]))

\* Author.to_contributor_format
to_contributor_format(author) ==
    IF Truthy(author.family_names)
    THEN IF Truthy(author.given_names)
         THEN LET given == StrSplit(author.given_names, 1, <<>>)
              IN  author.family_names \o <<" ">>
                      \o Join(<<>>, [n \in 1..Len(given) |-> <<given[n][1]>>])
         ELSE author.family_names
    ELSE author.name

\* lines 454-465 for a record: the usernames of the authors, then ContributorIds
PubContributorIds(us, pub) ==
    The({IF \E n \in 1..Len(found) : found[n].exc # NoException
         THEN [exc |-> found[CHOOSE n \in 1..Len(found) :
                              /\ found[n].exc # NoException
                              /\ \A m \in 1..n - 1 : found[m].exc = NoException].exc,
               text |-> <<>>]
         ELSE The({[exc |-> ids.exc, text |-> ids.text] :
                   ids \in {ContributorIds([n \in 1..Len(found) |-> found[n].result],
                                           Get(pub, "nbiros_entries", <<>>))}}) :
         found \in {[n \in 1..Len(pub["authors"]) |->
                        author_dict_to_username(us, pub["authors"][n])]}})

\* lines 443-453: the children of a publication element up to JournalPages
HeadElements(d, pub) ==
    LET category_id == CR_TYPE_TO_XML_CATEGORY_ID[pub["type"]]
    IN  <<SubElement("id", Some(d)), SubElement("Organisation", Some("EI")),
          SubElement("Category", Some(XML_CATEGORY_ID_TO_CATEGORY[category_id])),
          SubElement("CategoryID", Some(category_id)),
          SubElement("Title", Some(pub["title"])), SubElement("DOI", Some(d))>>
        \o (IF category_id \in {"1", "124"}
            THEN <<SubElement("JournalName", Some(pub["container-title"]))>>
            ELSE <<SubElement("JournalName", Some("")),
                   SubElement("BookTitle", Some(pub["container-title"]))>>
                 \o (IF "series-title" \in DOMAIN pub
                     THEN <<SubElement("SeriesTitle", Some(pub["series-title"]))>>
                     ELSE <<>>))
        \o <<SubElement("JournalVolume", pub["volume"]),
             SubElement("JournalPages", pub["pages"])>>

\* lines 433-474 for a record with metadata_ok: the exception raised, or the
\* children of the new publication element
PublicationElement(us, d, pub) ==
    The({IF ids.exc # NoException THEN [exc |-> ids.exc, el |-> <<>>]
        ELSE IF pub["oa_status"] \notin DOMAIN UNPAYWALL_OA_STATUS_TO_XML_OPENACCESS
        THEN [exc |-> KeyError(pub["oa_status"]), el |-> <<>>]
        ELSE [exc |-> NoException,
              el |-> HeadElements(d, pub)
                       \o <<SubElement("ContributorIds", Some(ids.text)),
                            SubElement("ContributorList",
                                       Some(Join(<<",", " ">>,
                                                 [n \in 1..Len(pub["authors"]) |->
                                                     to_contributor_format(pub["authors"][n])]))),
                            SubElement("Year", str_if_not_None(pub["year"], pub["RA"])),
                            SubElement("Month", str_if_not_None(pub["month"], pub["RA"])),
                            SubElement("Day", str_if_not_None(pub["day"], pub["RA"])),
                            SubElement("OpenAccess",
                               Some(UNPAYWALL_OA_STATUS_TO_XML_OPENACCESS[pub["oa_status"]]))>>] :
         ids \in {PubContributorIds(us, pub)}})

\* the new element is put before the others
WriteStepPrepend(us, item, tree) ==
    IF ~item.val["metadata_ok"] THEN [exc |-> NoException, tree |-> tree]
    ELSE The({IF made.exc # NoException THEN [exc |-> made.exc, tree |-> tree]
              ELSE [exc |-> NoException, tree |-> <<made.el>> \o tree] :
              made \in {PublicationElement(us, item.key, item.val)}})

\* lines 433-474: one pass of the loop over reversed(pubs_with_doi.items())
WriteStep(us, item, tree) ==
    IF ~item.val["metadata_ok"] THEN [exc |-> NoException, tree |-> tree]
    ELSE The({IF made.exc # NoException THEN [exc |-> made.exc, tree |-> tree]
              ELSE [exc |-> NoException, tree |-> Append(tree, made.el)] :
              made \in {PublicationElement(us, item.key, item.val)}})

(***************************************************************************)
(* SpecWrite: the enrichment pass and write_xml_output                     *)
(***************************************************************************)
FetchReturned == [pc |-> "returned", exc |-> NoException]
FetchNotFound == [pc |-> "raised", exc |-> HTTPError(404)]
FetchExhausted == [pc |-> "raised", exc |-> ExhaustedRetries]
CRMessage ==
    [status |-> "ok",
     message |-> [title |-> << <<"A", " ", " ", "<i>", "b", "</i>", "\n">>, <<"&amp;", "c">> >>]]
GoodAuthors(source) ==
    CHOOSE l \in AuthorLists(source) : Len(l) = 2

\* the answers of the services for one DOI
Answers(ra_fetch, RA, r_dict, types, container, authors, issued, oa) ==
    [ra_fetch |-> ra_fetch, ra_json |-> <<[RA |-> RA]>>, fetch |-> FetchReturned, r_dict |-> r_dict,
     types |-> types, container |-> container, authors |-> authors, issued |-> issued,
     oa_fetch |-> FetchReturned, oa |-> [oa_status |-> oa]]

\* a journal article; a book chapter of a series without volume, pages, month
\* and day; a journal article whose author has a blank after the given name;
\* a DataCite preprint with a year only; a DOI unknown to the directory; a directory that does not answer
WriteAnswers ==
    {Answers(FetchReturned, "Crossref", CRMessage, [type |-> "journal-article"],
             ("container-title" :> <<Book>>),
             [volume |-> <<"7">>, page |-> <<"1", "-", "9">>, author |-> GoodAuthors("CR")],
             [issued |-> ("date-parts" :> << <<2020, 5, 17>> >>)], "gold"),
     Answers(FetchReturned, "Crossref", CRMessage, [type |-> "book-chapter"],
             ("container-title" :> <<Series, Book>>), [author |-> GoodAuthors("CR")],
             [issued |-> ("date-parts" :> << <<2020>> >>)], "closed"),
     Answers(FetchReturned, "Crossref", CRMessage, [type |-> "journal-article"],
             ("container-title" :> <<Book>>),
             [author |-> <<[family |-> Doe, given |-> <<"J", "o", "h", "n", " ">>]>>],
             [issued |-> ("date-parts" :> << <<2020, 5>> >>)], "hybrid"),
     Answers(FetchReturned, "DataCite",
             [data |-> [attributes |-> [titles |-> <<[title |-> <<"A", " ", "b">>]>>]]],
             [types |-> [resourceTypeGeneral |-> "Preprint"]],
             [publisher |-> [type |-> "str", value |-> "Zenodo"]],
             [firstPage |-> <<"1">>, creators |-> GoodAuthors("DC")],
             [dates |-> <<[dateType |-> "Issued", date |-> <<"2", "0", "2", "0">>]>>], "green"),
     Answers(FetchNotFound, "Crossref", CRMessage, EmptyDict, EmptyDict, EmptyDict, EmptyDict, "gold"),
     Answers(FetchExhausted, "Crossref", CRMessage, EmptyDict, EmptyDict, EmptyDict, EmptyDict, "gold")}

MaxFeed == 2
WriteRaws == {PlainRaw, OsfRaw, BrokenRaw}
\* platform documents in which every DOI occurs once
WriteFeeds ==
    {feed \in StringsUpTo(WriteRaws, MaxFeed) :
        \A j, k \in 1..Len(feed) : feed[j] = feed[k] => j = k}
\* the legacy document: empty, an entry for 10.1/A with ContributorIds, or an
\* entry for it without
WriteLegacy ==
    {<<>>,
     <<[id |-> 1, DOI |-> <<"1", "0", ".", "1", "/", "A">>,
        ContributorIds |-> <<"u", "1", ",", " ", "x">>]>>,
     <<[id |-> 1, DOI |-> <<"1", "0", ".", "1", "/", "A">>]>>}
WriteRosters ==
    {<<[username |-> <<"u", "1">>, family_names |-> Doe, given_names |-> JohnPaul,
        orcid_id |-> Orcid]>>,
     <<[username |-> <<"u", "1">>, family_names |-> Doe, given_names |-> JohnPaul,
        orcid_id |-> <<>>]>>}

\* lines 325-351 over the first n entries of the legacy document
RECURSIVE FoldLegacy(_, _)
FoldLegacy(entries, n) ==
    IF n = 0 THEN <<>>
    ELSE FoldEntry(FoldLegacy(entries, n - 1), "nbiros_entries", entries[n])

\* lines 548-563 over the first n platform entries, onto the map `items`
RECURSIVE FoldPlatformOnto(_, _, _)
FoldPlatformOnto(items, entries, n) ==
    IF n = 0 THEN items
    ELSE FoldEntry(FoldPlatformOnto(items, entries, n - 1), "rf_entries", entries[n])

InitWrite ==
    /\ \E legacy \in WriteLegacy, feed \in WriteFeeds :
          /\ root_el = legacy
          /\ publications = Entries(feed)
          /\ pubs_with_doi = FoldPlatformOnto(FoldLegacy(legacy, Len(legacy)), Entries(feed),
                                              Len(feed))
    /\ \E rows \in WriteRosters : reader = [pc |-> "open", rows |-> rows, exc |-> NoException]
    /\ main = [pc |-> "head", i |-> 1, exc |-> NoException]
    /\ users = <<>> /\ xml_tree = <<>>
    /\ uniq = [pc |-> "idle"] /\ matched = [pc |-> "idle"] /\ paged = [pc |-> "idle"]
    /\ again = NotConstructed
    /\ DOIIdle /\ EqIdle /\ FetchIdle /\ PersonIdle

\* lines 571-708 for the next DOI of the map: the loop body and the handler
WriteEnrich ==
    /\ main.pc = "head" /\ main.i <= Len(pubs_with_doi)
    /\ \E b \in WriteAnswers :
          \E out \in {LoopBody(pubs_with_doi[main.i].key, pubs_with_doi[main.i].val, b)} :
              /\ pubs_with_doi' = [pubs_with_doi EXCEPT ![main.i].val = out.pub]
              /\ main' = IF out.exc # NoException /\ ExceptHandler(out.exc) = "reraised"
                         THEN [pc |-> "aborted", i |-> main.i, exc |-> out.exc]
                         ELSE [pc |-> "head", i |-> main.i + 1, exc |-> NoException]
    /\ UNCHANGED <<doiVars, call, personVars, root_el, publications, outVars>>

\* lines 710-711: the loop has ended and the output is asked for
WriteCall ==
    /\ main.pc = "head" /\ main.i > Len(pubs_with_doi)
    /\ main' = [pc |-> "enriched", i |-> 0, exc |-> NoException]
    /\ UNCHANGED <<doiVars, call, personVars, root_el, publications, pubs_with_doi, outVars>>

\* lines 430-432: the roster is fetched with requests.get and loaded
WriteGetUsers ==
    /\ main.pc = "enriched"
    /\ \E status \in {200, 404}, got \in {get_users(reader.rows)} :
          LET exc == IF RaisesForStatus(status) THEN HTTPError(status) ELSE got.exc
          IN  /\ users' = IF exc = NoException THEN got.users ELSE <<>>
              /\ reader' = [reader EXCEPT !.pc = IF exc = NoException THEN "read" ELSE "raised",
                                          !.exc = exc]
              /\ main' = [pc |-> IF exc = NoException THEN "write" ELSE "raised",
                          i |-> Len(pubs_with_doi), exc |-> exc]
    /\ UNCHANGED <<doiVars, call, personVars, root_el, publications, pubs_with_doi,
                   uniq, matched, xml_tree, paged, again>>

\* lines 433-474 for the next record, from the last key of the map backwards
WriteRecord ==
    /\ main.pc = "write" /\ main.i >= 1
    /\ \E out \in {WriteStep(users, pubs_with_doi[main.i], xml_tree)} :
          /\ xml_tree' = out.tree
          /\ main' = [pc |-> IF out.exc = NoException THEN "write" ELSE "raised",
                      i |-> main.i - 1, exc |-> out.exc]
    /\ UNCHANGED <<doiVars, call, personVars, root_el, publications, pubs_with_doi,
                   uniq, matched, reader, users, paged, again>>

\* lines 475-477: the document is written to the file
WriteEnd ==
    /\ main.pc = "write" /\ main.i = 0
    /\ main' = [main EXCEPT !.pc = "written"]
    /\ UNCHANGED <<doiVars, call, personVars, root_el, publications, pubs_with_doi, outVars>>

NextWrite == WriteEnrich \/ WriteCall \/ WriteGetUsers \/ WriteRecord \/ WriteEnd

SpecWrite == InitWrite /\ [][NextWrite]_vars

\* the text of the child `tag` of the n-th publication element
IdOf(el) == el[CHOOSE k \in 1..Len(el) : el[k].tag = "id"].text[1]

\* C12: while the document is built, and when it is written, its publication
\* elements are, in this order, one for each record with metadata_ok = True
\* among those the loop has passed, from the key inserted last to the key
\* inserted first, and none for a record with metadata_ok = False.
C12_OutputRecords ==
    main.pc \in {"write", "written"} =>
        LET passed == {n \in 1..Len(pubs_with_doi) :
                          n > main.i /\ pubs_with_doi[n].val["metadata_ok"]}
        IN  /\ Len(xml_tree) = Cardinality(passed)
            /\ \A k \in 1..Len(xml_tree) :
                  \E n \in passed :
                      /\ IdOf(xml_tree[k]) = pubs_with_doi[n].key
                      /\ Cardinality({m \in passed : m > n}) = k - 1

\* the document is written with two publications, a record without
\* metadata_ok being left out
C12_Witness ==
    /\ main.pc = "written" /\ Len(xml_tree) = 2 /\ Len(pubs_with_doi) = 3
    /\ IdOf(xml_tree[1]) = pubs_with_doi[3].key
    /\ IdOf(xml_tree[2]) = pubs_with_doi[1].key

\* the children of a publication element for the optional fields
OptionalTags == {"JournalVolume", "JournalPages", "Year", "Month", "Day", "SeriesTitle"}

\* C18: no publication element of the document has a child for an optional
\* field (volume, pages, year, month, day, series title) without text, and
\* each has a JournalName child, which is empty for a book chapter.
C18_AbsentFieldsOmitted ==
    \A k \in 1..Len(xml_tree) :
        LET el == xml_tree[k]
        IN  /\ \A j \in 1..Len(el) : el[j].tag \in OptionalTags => el[j].text # NoneOpt
            /\ \E j \in 1..Len(el) : el[j].tag = "JournalName"

\* C15: a run that stops before the document is written, in the enrichment
\* pass or in write_xml_output, stops on a fetch that exhausted its retries,
\* and on no other failure.
C15_OnlyExhaustionStopsRun ==
    main.pc \in {"aborted", "raised"} => main.exc = ExhaustedRetries

\* C20: when a call of get_url has ended, every sleep of the call is followed
\* by a request: the last thing the call did before it returned or raised is
\* a request, never a sleep.
C20_NoSleepAfterLastAttempt ==
    call.pc \in {"returned", "raised"} =>
        \A n \in 1..Len(call.events) :
            call.events[n] = "sleep" => n < Len(call.events) /\ call.events[n + 1] = "get"

(***************************************************************************)
(* SpecReparse: DOI(raw), and DOI of the value it returned                 *)
(***************************************************************************)
MaxReparseLen == 5
ReparseChars == {"1", "/", "a", " ", "\n"}
ReparseRaws == StringsUpTo(ReparseChars, MaxReparseLen)

InitReparse ==
    /\ raw \in ReparseRaws
    /\ doi = NotConstructed
    /\ EqIdle /\ FetchIdle /\ PersonIdle /\ MainIdle
    /\ uniq = [pc |-> "idle"] /\ reader = <<>> /\ users = <<>>
    /\ matched = [pc |-> "idle"] /\ xml_tree = <<>> /\ paged = [pc |-> "idle"]
    /\ again = NotConstructed

\* doi = DOI(raw)
ReparseFirst ==
    /\ doi = NotConstructed
    /\ doi' = DOINew(raw)
    /\ UNCHANGED <<raw, abc, cmp, call, personVars, mainVars, outVars>>

\* DOI(str(doi)): the value is a str and is parsed as any raw string is
ReparseSecond ==
    /\ doi # NotConstructed /\ doi.ok
    /\ again = NotConstructed
    /\ again' = DOINew(doi.value)
    /\ UNCHANGED <<doiVars, call, personVars, mainVars, uniq, reader, users, matched,
                   xml_tree, paged>>

NextReparse == ReparseFirst \/ ReparseSecond

SpecReparse == InitReparse /\ [][NextReparse]_vars

\* C19: when DOI(raw) has succeeded and its value is parsed again, the second
\* construction succeeds with the same value.
C19_ParseIdempotent ==
    again # NotConstructed => again = doi

\* the keys of a record that the normalization sets
NormalizedFields ==
    {"title", "type", "container-title", "series-title", "volume", "pages", "authors",
     "year", "month", "day", "oa_status"}

\* C17: when the enrichment pass has ended, a record with metadata_ok = False
\* has none of the normalized fields.
C17_FieldsOnlyWhenOk ==
    main.pc = "enriched" =>
        \A n \in 1..Len(pubs_with_doi) :
            LET pub == pubs_with_doi[n].val
            IN  ~pub["metadata_ok"] => DOMAIN pub \cap NormalizedFields = {}

\* the normalized fields in the order in which the loop body sets them
FieldOrder ==
    <<{"title"}, {"type"}, {"container-title"}, {"volume", "pages"}, {"authors"},
      {"year", "month", "day"}, {"oa_status"}>>

\* C17 (amended): a record has the normalized fields that were set before the
\* step at which its normalization stopped, and no others: the fields of a
\* step are there together and only with those of every earlier step, a
\* series title only with a container title, and a known broken DOI has
\* none; the last of them, the OA status, is there exactly when metadata_ok
\* is True.
C17_FieldsUpToFailure ==
    \A n \in 1..Len(pubs_with_doi) :
        LET pub == pubs_with_doi[n].val
            any(k) == FieldOrder[k] \cap DOMAIN pub # {}
            all(k) == FieldOrder[k] \subseteq DOMAIN pub
        IN  /\ \A k \in 1..Len(FieldOrder) :
                  any(k) => all(k) /\ \A j \in 1..k - 1 : all(j)
            /\ "series-title" \in DOMAIN pub => "container-title" \in DOMAIN pub
            /\ DictFind(BROKEN_DOI_TO_REASON, pubs_with_doi[n].key) # 0
                  => DOMAIN pub \cap NormalizedFields = {}
            /\ ("metadata_ok" \in DOMAIN pub /\ pub["metadata_ok"]) <=> "oa_status" \in DOMAIN pub

\* the pass has ended with a record that kept its fields up to the authors
\* when the issued date could not be read
C17_Witness ==
    /\ main.pc = "enriched"
    /\ \E n \in 1..Len(pubs_with_doi) :
          LET pub == pubs_with_doi[n].val
          IN  /\ ~pub["metadata_ok"]
              /\ "authors" \in DOMAIN pub /\ "year" \notin DOMAIN pub

(***************************************************************************)
(* RF_get_paginated                                                        *)
(***************************************************************************)
\* lines 259-265: the frame on entry; `next` is Some(0), starts and bodies
\* record the start parameter of every request and the body of every answer
RFGetPaginatedEntry(max_pages) ==
    [pc |-> IF max_pages > 0 THEN "loop" ELSE "raised",
     exc |-> IF max_pages > 0 THEN NoException ELSE AssertionError(""),
     max_pages |-> max_pages, next |-> Some(0), ret |-> <<>>,
     starts |-> <<>>, bodies |-> <<>>]

\* line 266: next is not None and next < max_pages
RFLoopCondition(c) == c.next # NoneOpt /\ c.next[1] < c.max_pages

\* lines 267-271: one pass of the loop, get_url ending as `fetch` says and
\* the body of the answer being r_dict
RFGetPaginatedIteration(c, fetch, r_dict) ==
    LET sent == [c EXCEPT !.starts = Append(@, c.next[1])]
    IN  IF fetch.pc = "raised" THEN [sent EXCEPT !.pc = "raised", !.exc = fetch.exc]
        ELSE IF "results" \notin DOMAIN r_dict
        THEN [sent EXCEPT !.pc = "raised", !.exc = KeyError("results"),
                          !.bodies = Append(@, r_dict)]
        ELSE [sent EXCEPT !.ret = @ \o r_dict["results"],
                          !.next = OptGet(r_dict, "next"),
                          !.bodies = Append(@, r_dict)]

(***************************************************************************)
(* SpecPaged: one call of RF_get_paginated                                 *)
(***************************************************************************)
MaxPageCap == 4
MaxStart == 5
\* the bodies a platform that pages forward can answer to a request with
\* `start`: no, one or two results, and no next or a next after start
PageBodies(start) ==
    {results @@ next :
        results \in {EmptyDict} \cup
                    {[results |-> l] : l \in {<<>>, <<[id |-> start]>>,
                                             <<[id |-> start], [id |-> start + 1]>>}},
        next \in {EmptyDict} \cup {[next |-> n] : n \in start + 1..MaxStart}}

InitPaged ==
    /\ \E max_pages \in 1..MaxPageCap : paged = RFGetPaginatedEntry(max_pages)
    /\ DOIIdle /\ EqIdle /\ FetchIdle /\ PersonIdle /\ MainIdle
    /\ uniq = [pc |-> "idle"] /\ reader = <<>> /\ users = <<>>
    /\ matched = [pc |-> "idle"] /\ xml_tree = <<>> /\ again = NotConstructed

\* lines 266-271
PagedIteration ==
    /\ paged.pc = "loop" /\ RFLoopCondition(paged)
    /\ \E fetch \in FetchOutcomes, r_dict \in PageBodies(paged.next[1]) :
          paged' = RFGetPaginatedIteration(paged, fetch, r_dict)
    /\ UNCHANGED <<doiVars, call, personVars, mainVars, uniq, reader, users, matched,
                   xml_tree, again>>

\* line 272
PagedReturn ==
    /\ paged.pc = "loop" /\ ~RFLoopCondition(paged)
    /\ paged' = [paged EXCEPT !.pc = "returned"]
    /\ UNCHANGED <<doiVars, call, personVars, mainVars, uniq, reader, users, matched,
                   xml_tree, again>>

NextPaged == PagedIteration \/ PagedReturn

SpecPaged == InitPaged /\ [][NextPaged]_vars

\* the results of the first n bodies, in order
RECURSIVE ResultsOf(_, _)
ResultsOf(bodies, n) ==
    IF n = 0 THEN <<>> ELSE ResultsOf(bodies, n - 1) \o bodies[n]["results"]

\* C16: the first request has start = 0 and each following one the next value
\* of the answer before it; the results are those of the pages fetched, in
\* page order; no more pages are fetched than the page cap; and the call
\* returns only when the last answer had no next value or as many pages as
\* the page cap have been fetched.
C16_PaginatedPull ==
    LET pages == Len(paged.starts)
    IN  paged.pc \in {"loop", "returned"} =>
            /\ pages = Len(paged.bodies)
            /\ pages >= 1 => paged.starts[1] = 0
            /\ \A k \in 2..pages : paged.starts[k] = paged.bodies[k - 1]["next"]
            /\ paged.ret = ResultsOf(paged.bodies, pages)
            /\ pages <= paged.max_pages
            /\ paged.pc = "returned" =>
                  \/ "next" \notin DOMAIN paged.bodies[pages]
                  \/ pages = paged.max_pages

\* the types DC_resourceTypeGeneral_TO_CR_TYPE maps to, the preprint apart
DCOtherTypes == {"journal-article", "book-chapter", "proceedings-article"}

\* C21: a record of the agency DataCite whose type is journal-article,
\* book-chapter or proceedings-article never has metadata_ok = True; when the
\* loop body has read the container of such a record, the record has been
\* skipped without an exception (empty container, Cambridge repository DOI)
\* or the step has raised 'Unhandled situation!', and the loop stands at the
\* next DOI.
C21_DataCiteOnlyPreprints ==
    /\ \A n \in 1..Len(pubs_with_doi) :
          LET pub == pubs_with_doi[n].val
          IN  /\ "RA" \in DOMAIN pub /\ pub["RA"] = "DataCite"
              /\ "type" \in DOMAIN pub /\ pub["type"] \in DCOtherTypes
              => ~pub["metadata_ok"] /\ "container-title" \notin DOMAIN pub
    /\ /\ main.step = "dc_container" /\ LastPub["type"] \in DCOtherTypes
       /\ "container" \in DOMAIN main.pub_metadata
       => /\ main.pc = "head"
          /\ \/ /\ main.raised = NoException
                /\ main.pub_metadata["container"] = EmptyDict
             \/ main.raised = Exc("Exception", "Unhandled situation!")

\* a DataCite journal article with a container has failed as unhandled
C21_Witness ==
    /\ main.step = "dc_container" /\ main.pc = "head"
    /\ LastPub["RA"] = "DataCite" /\ ~LastPub["metadata_ok"]
    /\ LastPub["type"] = "journal-article"
    /\ main.pub_metadata = [container |-> [type |-> "Journal"]]
    /\ main.raised = Exc("Exception", "Unhandled situation!")
====
